---- MODULE Spec2Model ----
(***************************************************************************)
(* Model of the portal automation client of epic_trips_crm                 *)
(* (scraping/travelagentportal_playwright.py) and of the command line      *)
(* entry point that drives it (scraping/run_submit_sale.py), with the      *)
(* date helper of the client on its own, the sales submission service      *)
(* (services/sales_submission.py) inside its database session, and the     *)
(* trip status synchronisation (services/trip_status.py).                  *)
(*                                                                         *)
(* The browser and the portal are the environment: every wait that can     *)
(* time out and every signal the portal may or may not show is an input    *)
(* drawn with \E.  The client's state is its four handles and what the     *)
(* operation in progress has done so far.                                  *)
(***************************************************************************)
EXTENDS Naturals, Integers, Sequences, FiniteSets, TLC

VARIABLES
    pw, browser, context, page,  \* the handles _pw, _browser, _context, _page (set or None)
    navigated,                   \* page.goto(base_url) completed on the current page
    livePw,                      \* playwright instances started and not yet stopped
    authed,                      \* the portal shows the commissions dropdown in this session
    cur,                         \* the submit_sale call in progress (its for loop position)
    trace,                       \* steps of the current or last public operation, in order
    steps,                       \* browser interactions of the last component add, in order
    lastSave,                    \* what the last run of the Save-Verifier saw and did
    dumps,                       \* tags _debug_dump was called with in the last step
    written,                     \* tags whose screenshot was written in the last step
    finalClicks,                 \* clicks on the final submit control so far
    clickOps,                    \* public operations during which that control was clicked
    result,                      \* how the last public operation ended
    ifCaptured,                  \* how it would have ended had every screenshot been written
    lastClose,                   \* handles before, and releases made by, the last close()
    calls,                       \* public operations invoked on the client, in order
    caller,                      \* who drives the client: "workflow", "free" or "cli"
    cliPc, cliCmd, cliAck, cliFormId, cliErr, cliOut,  \* run_submit_sale.main
    saleExists,                  \* the sale row the submit-sale subcommand asks for exists
    dateArg, control, filled,    \* _fill_date: the date, the input control, the text filled
    dbRows,                      \* the commissions table as committed
    sessRows,                    \* the commissions table as the open session sees it
    nextId,                      \* the next primary key of the commissions table
    svcPc, svcSale,              \* SalesSubmissionService.submit_sale: position, sale_id
    portalLog,                   \* calls the service made on its portal, in order
    svcOutcome, svcErr,          \* what the service returned, the exception it raised
    svcCalls,                    \* calls of the service so far
    tripStatus,                  \* trips.status of the trip
    tripSales,                   \* the sales rows of the trip
    lastSync,                    \* the last sync_trip_status_from_sales call
    wOp,                         \* the operation whose waits are followed
    wPc,                         \* the wait it is in
    wLeft,                       \* milliseconds left before that wait expires
    wEnd                         \* "running", "returned" or "raised"

clientVars == <<pw, browser, context, page, navigated, livePw, authed, cur, trace,
                steps, lastSave, dumps, written, finalClicks, clickOps, result,
                ifCaptured, lastClose>>
cliVars == <<cliPc, cliCmd, cliAck, cliFormId, cliErr, cliOut, saleExists>>
dateVars == <<dateArg, control, filled>>
svcVars == <<dbRows, sessRows, nextId, svcPc, svcSale, portalLog, svcOutcome, svcErr,
             svcCalls>>
tripVars == <<tripStatus, tripSales, lastSync>>
waitVars == <<wOp, wPc, wLeft, wEnd>>
auxVars == <<dateVars, svcVars, tripVars, waitVars>>
portalVars == <<clientVars, calls, caller, cliVars>>
vars == <<portalVars, auxVars>>

(***************************************************************************)
(* Bounds of the model.                                                    *)
(***************************************************************************)
MaxCalls == 3        \* public operations invoked on one client by a free caller
MaxComponents == 2   \* components in one payload
MaxServiceCalls == 3 \* calls of SalesSubmissionService.submit_sale
TickMs == 250        \* milliseconds of one step of the clock

(***************************************************************************)
(* Program constants.                                                      *)
(***************************************************************************)
DefaultFormId == "EVO2026153349"
FormIds == {DefaultFormId, "EVO2026000001"}
NoValue == ""        \* a key the payload does not carry (dict.get gives None)
Refs == {"BR-1", "BR-2"}
NoSubmitSuffix == "-NO-SUBMIT"

\* PortalSelectors: the save control of a component and the final submit control.
\* (MutSaveSelector: a save selector that names the final submit control.)
MutSaveSelector == "#btnSubmit"
component_save == "css=form#mainForm button.btn.btn-primary[type='submit']"
final_submit == "#btnSubmit"

KnownTypes == {"Actividad", "Car", "Cruise", "Hotel", "Package", "Insurance"}
ComponentTypes == KnownTypes \cup {"Flight"}
Components == [type : ComponentTypes, booking_reference : Refs]

\* A payload: the record id (or none), whether traveler data is present, and how many
\* components it carries.  submit_sale reads a component only in that component's
\* iteration of its for loop, so each component is drawn when the loop reaches it.
Payloads == [existing_form_id : FormIds \cup {NoValue},
             client_data : BOOLEAN,
             components : 0..MaxComponents]

NoResult == [op |-> "none", status |-> "none", err |-> "none", conf |-> NoValue]
Ok(op, conf) == [op |-> op, status |-> "ok", err |-> "none", conf |-> conf]
Raised(op, err) == [op |-> op, status |-> "error", err |-> err, conf |-> NoValue]

NoSave == [ran |-> FALSE, ref |-> NoValue, validation |-> FALSE, nav |-> FALSE,
           ctrl |-> FALSE, content |-> FALSE, clicked |-> NoValue,
           evaluated |-> <<>>, outcome |-> "none"]
NoClose == [called |-> FALSE, before |-> <<FALSE, FALSE, FALSE, FALSE>>,
            released |-> <<>>, raised |-> FALSE]
Idle == [active |-> FALSE, formId |-> NoValue, todo |-> 0, done |-> 0]

(***************************************************************************)
(* Lifecycle: the session handle.                                          *)
(***************************************************************************)
Handles == [pw |-> pw, browser |-> browser, context |-> context, page |-> page,
            navigated |-> navigated, livePw |-> livePw, authed |-> authed]

\* The step of _start that raises ("none": every step succeeds).
StartFailures == {"none", "playwright", "launch", "launch_release", "context", "page",
                  "goto"}
\* _start does nothing when a page exists, so nothing of it can fail then.
StartEnvs == IF page THEN {"none"} ELSE StartFailures

\* close(): three try/finally blocks in a row.  Context, browser and playwright are
\* released in this order, each only if its handle is set, and each handle is reset
\* in the finally of its own block.  A release that raises ends close() there: the
\* handles of the later blocks stay as they are.  The page has no release call of
\* its own; it is reset with the playwright handle.
\* rf: the release call that raises ("none": none does).  released: the releases
\* that were called, in order.
CloseFailures == {"none", "context", "browser", "pw"}
CloseEnvs(h) == {"none"} \cup {x \in {"context", "browser", "pw"} : h[x]}

close(h, rf) ==
    LET ctx == IF h.context THEN <<"context">> ELSE <<>>
        brw == IF h.browser THEN <<"browser">> ELSE <<>>
        plw == IF h.pw THEN <<"pw">> ELSE <<>>
        h1 == [h EXCEPT !.context = FALSE]
        h2 == [h1 EXCEPT !.browser = FALSE]
        h3 == [h2 EXCEPT !.pw = FALSE, !.page = FALSE, !.navigated = FALSE,
                         !.authed = FALSE]
    IN  IF h.context /\ rf = "context"
        THEN [h |-> h1, released |-> ctx, err |-> "ReleaseError"]
        ELSE IF h.browser /\ rf = "browser"
        THEN [h |-> h2, released |-> ctx \o brw, err |-> "ReleaseError"]
        ELSE IF h.pw /\ rf = "pw"
        THEN [h |-> h3, released |-> ctx \o brw \o plw, err |-> "ReleaseError"]
        ELSE [h |-> [h3 EXCEPT !.livePw = IF h.pw THEN h.livePw - 1 ELSE h.livePw],
              released |-> ctx \o brw \o plw, err |-> "none"]

\* _start(): returns at once when a page exists; otherwise starts playwright, launches
\* the browser, creates context and page and navigates.  Only a failed launch is
\* handled (close(), then RuntimeError; "launch_release": the playwright stop in
\* that close() raises too); any other failure leaves the handles set so far and
\* propagates as raised.
\* (MutStart: a session start that returns without creating anything.)
MutStart(h, fail) == [h |-> h, err |-> "none"]
_start(h, fail) ==
    IF h.page THEN [h |-> h, err |-> "none"]
    ELSE IF fail = "playwright" THEN [h |-> h, err |-> "StartError"]
    ELSE LET h1 == [h EXCEPT !.pw = TRUE, !.livePw = h.livePw + 1]
             h2 == [h1 EXCEPT !.browser = TRUE]
             h3 == [h2 EXCEPT !.context = TRUE, !.authed = FALSE, !.navigated = FALSE]
             h4 == [h3 EXCEPT !.page = TRUE]
         IN  CASE fail = "launch"  -> [h |-> close(h1, "none").h, err |-> "LaunchError"]
               [] fail = "launch_release" ->
                      [h |-> close(h1, "pw").h, err |-> close(h1, "pw").err]
               [] fail = "context" -> [h |-> h2, err |-> "StartError"]
               [] fail = "page"    -> [h |-> h3, err |-> "StartError"]
               [] fail = "goto"    -> [h |-> h4, err |-> "StartError"]
               [] OTHER            -> [h |-> [h4 EXCEPT !.navigated = TRUE], err |-> "none"]

\* _require_page(): the lifecycle error when no page exists.
_require_page(h) == IF h.page THEN "none" ELSE "LifecycleError"

\* _debug_dump(tag): nothing without a page; the screenshot is taken inside try, and
\* `except Exception: pass` swallows its failure.  written: the screenshots written;
\* err: the exception that leaves _debug_dump.
\* (MutDebugDump: the failure of the screenshot leaves _debug_dump.)
MutDebugDump(h, tags, shotOk) ==
    [written |-> IF h.page /\ shotOk THEN tags ELSE <<>>,
     err |-> IF h.page /\ ~shotOk /\ tags # <<>> THEN "ScreenshotError" ELSE "none"]
_debug_dump(h, tags, shotOk) ==
    [written |-> IF h.page /\ shotOk THEN tags ELSE <<>>,
     err |-> "none"]

\* Whether the screenshots of one step can be written (asked only when there are any).
ShotEnvs(tags) == IF tags = <<>> THEN {TRUE} ELSE BOOLEAN

Prefix(s, n) == SubSeq(s, 1, n)
Range(s) == {s[i] : i \in DOMAIN s}

SetHandles(h) ==
    /\ pw' = h.pw
    /\ browser' = h.browser
    /\ context' = h.context
    /\ page' = h.page
    /\ navigated' = h.navigated
    /\ livePw' = h.livePw
    /\ authed' = h.authed

(***************************************************************************)
(* Supplier Resolver (_add_supplier).  menu1/menu2: what the suggestion    *)
(* list shows in the first/second attempt; id1/id2: the hidden #SupplierId *)
(* is valid after it.                                                      *)
(***************************************************************************)
MenuStates == {"exact", "other", "none"}
SupplierEnvs == [menu1 : MenuStates, id1 : BOOLEAN, menu2 : MenuStates, id2 : BOOLEAN]
SupplierDefault == [menu1 |-> "exact", id1 |-> TRUE, menu2 |-> "exact", id2 |-> TRUE]

\* click_best_match on a list that rendered: the exact text match when there is one,
\* otherwise the first suggestion.
click_best_match(menu) ==
    IF menu = "exact" THEN "supplier:click_exact" ELSE "supplier:click_first"

\* The wait on the hidden #SupplierId and what it saw.
CheckId(valid) == "supplier:check_id=" \o (IF valid THEN "valid" ELSE "invalid")

\* _add_supplier.  Try 1 catches a list that does not render and confirms by keyboard;
\* the retry does not: its wait_menu raises the timeout.
\* (MutAddSupplier: the retry's check of the hidden id is swallowed like the first.)
MutAddSupplier(se) ==
    LET try1 == <<"supplier:type:15", "supplier:wait_menu=" \o se.menu1>>
                \o (IF se.menu1 # "none" THEN <<click_best_match(se.menu1)>>
                                         ELSE <<"supplier:keyboard">>)
                \o <<"supplier:blur", CheckId(se.id1)>>
        retry == try1 \o <<"supplier:type:40", "supplier:wait_menu=" \o se.menu2>>
    IN  IF se.id1 THEN [ok |-> TRUE, attempts |-> 1, events |-> try1]
        ELSE IF se.menu2 = "none" THEN [ok |-> FALSE, attempts |-> 2, events |-> retry]
        ELSE [ok |-> TRUE, attempts |-> 2,
              events |-> retry \o <<click_best_match(se.menu2), "supplier:blur",
                                    CheckId(se.id2)>>]
_add_supplier(se) ==
    LET try1 == <<"supplier:type:15", "supplier:wait_menu=" \o se.menu1>>
                \o (IF se.menu1 # "none" THEN <<click_best_match(se.menu1)>>
                                         ELSE <<"supplier:keyboard">>)
                \o <<"supplier:blur", CheckId(se.id1)>>
        retry == try1 \o <<"supplier:type:40", "supplier:wait_menu=" \o se.menu2>>
    IN  IF se.id1 THEN [ok |-> TRUE, attempts |-> 1, events |-> try1]
        ELSE IF se.menu2 = "none" THEN [ok |-> FALSE, attempts |-> 2, events |-> retry]
        ELSE [ok |-> se.id2, attempts |-> 2,
              events |-> retry \o <<click_best_match(se.menu2), "supplier:blur",
                                    CheckId(se.id2)>>]

\* Every interaction of the Supplier Resolver.
SupplierEvents ==
    {"supplier:type:15", "supplier:type:40", "supplier:click_exact",
     "supplier:click_first", "supplier:keyboard", "supplier:blur"}
    \cup {"supplier:wait_menu=" \o x : x \in MenuStates}
    \cup {CheckId(v) : v \in BOOLEAN}

(***************************************************************************)
(* Currency (_set_currency_usd): "ok" the value sticks; "empty" it is empty *)
(* after the settle wait; "error"/"timeout" setting it raises inside the    *)
(* try block (another exception / a Playwright timeout).                    *)
(***************************************************************************)
CurrencyOutcomes == {"ok", "empty", "error", "timeout"}

\* The interactions are the selection of US Dollar and, after the settle wait, the
\* reading of the control's value.
\* (MutSetCurrency: the value read after the settle wait is not looked at.)
MutSetCurrency(how) ==
    CASE how = "ok"      -> [err |-> "none", dumps |-> <<>>,
                             events |-> <<"currency:select", "currency:value=set">>]
      [] how = "empty"   -> [err |-> "none", dumps |-> <<>>,
                             events |-> <<"currency:select", "currency:value=empty">>]
      [] how = "error"   -> [err |-> "CurrencyException",
                             dumps |-> <<"currency_set_exception">>,
                             events |-> <<"currency:select=raised">>]
      [] OTHER           -> [err |-> "Timeout", dumps |-> <<"currency_set_exception">>,
                             events |-> <<"currency:select=raised">>]
_set_currency_usd(how) ==
    CASE how = "ok"      -> [err |-> "none", dumps |-> <<>>,
                             events |-> <<"currency:select", "currency:value=set">>]
      [] how = "empty"   -> [err |-> "CurrencyError", dumps |-> <<"currency_not_set">>,
                             events |-> <<"currency:select", "currency:value=empty">>]
      [] how = "error"   -> [err |-> "CurrencyException",
                             dumps |-> <<"currency_set_exception">>,
                             events |-> <<"currency:select=raised">>]
      [] OTHER           -> [err |-> "Timeout", dumps |-> <<"currency_set_exception">>,
                             events |-> <<"currency:select=raised">>]

\* Every interaction of the currency step.
CurrencyEvents == {"currency:select", "currency:select=raised", "currency:value=set",
                  "currency:value=empty"}

(***************************************************************************)
(* Save-Verifier (_save_component_and_verify).                              *)
(*   btnVisible  the save control becomes visible within its bound          *)
(*   click       "ok" the click succeeds; "js" it raises and the scripted    *)
(*               click on the literal selector succeeds; "fail" both raise   *)
(*   validation  a validation-error indicator is visible after the settle   *)
(*   nav/ctrl/content  the three success signals arrive within their bounds *)
(* The RuntimeError raised for a visible validation error is raised inside  *)
(* the try block whose handler is "except Exception: pass", so it is        *)
(* swallowed and the success signals are evaluated all the same.            *)
(***************************************************************************)
ClickOutcomes == {"ok", "js", "fail"}
SaveEnvs == [btnVisible : BOOLEAN, click : ClickOutcomes, validation : BOOLEAN,
             nav : BOOLEAN, ctrl : BOOLEAN, content : BOOLEAN]

\* The selector the scripted fallback click is given.
js_save_selector == "form#mainForm button.btn.btn-primary[type='submit']"

Signals == <<"nav", "ctrl", "content">>
Observed(ve, sig) ==
    CASE sig = "nav" -> ve.nav [] sig = "ctrl" -> ve.ctrl [] OTHER -> ve.content

\* The signals evaluated, in order, up to and including the first one observed.
\* (MutEvaluatedSignals: the content signal is waited for first.)
MutEvaluatedSignals(ve) ==
    IF ve.content THEN <<"content">>
    ELSE IF ve.nav THEN <<"content", "nav">>
    ELSE IF ve.ctrl THEN <<"content", "nav", "ctrl">>
    ELSE <<"content", "nav", "ctrl">>
EvaluatedSignals(ve) ==
    IF ve.nav THEN <<"nav">>
    ELSE IF ve.ctrl THEN <<"nav", "ctrl">>
    ELSE <<"nav", "ctrl", "content">>

\* The save is accepted exactly when the last signal evaluated was observed.
\* (MutSaveOutcome: a verifier that returns also when every wait timed out.)
MutSaveOutcome(ve) == "accepted"
SaveOutcome(ve) ==
    IF Observed(ve, EvaluatedSignals(ve)[Len(EvaluatedSignals(ve))])
    THEN "accepted" ELSE "rejected"

_save_component_and_verify(ref, ve) ==
    LET before == <<"press:Escape", "wait:" \o component_save>>
        tried == Append(before, "click:" \o component_save)
        click == IF ve.click = "ok" THEN tried
                 ELSE Append(tried, "jsclick:" \o js_save_selector)
        clicked == Append(click, "check:validation")
        valDump == IF ve.validation THEN <<"validation_after_save_" \o ref>> ELSE <<>>
        sigs == EvaluatedSignals(ve)
        outcome == SaveOutcome(ve)
    IN  IF ~ve.btnVisible
        THEN [err |-> "Timeout", events |-> Prefix(before, 1), dumps |-> <<>>,
              save |-> [NoSave EXCEPT !.ref = ref]]
        ELSE IF ve.click = "fail"
        THEN [err |-> "SaveClickError", events |-> click, dumps |-> <<>>,
              save |-> [NoSave EXCEPT !.ref = ref]]
        ELSE [err |-> IF outcome = "accepted" THEN "none" ELSE "SaveUnverified",
              events |-> clicked \o [i \in DOMAIN sigs |-> "wait:" \o sigs[i]],
              dumps |-> valDump \o (IF outcome = "accepted" THEN <<>>
                                    ELSE <<"save_unverified_" \o ref>>),
              save |-> [ran |-> TRUE, ref |-> ref, validation |-> ve.validation,
                        nav |-> ve.nav, ctrl |-> ve.ctrl, content |-> ve.content,
                        clicked |-> IF ve.click = "ok" THEN component_save
                                    ELSE js_save_selector,
                        evaluated |-> sigs,
                        outcome |-> outcome]]

(***************************************************************************)
(* Component add (_new_component and the six builders).                     *)
(***************************************************************************)
\* _fill_common_component_fields.
\* (MutCommonSteps: the currency is set before the supplier is chosen.)
MutCommonSteps == <<"fill:booking_date", "currency", "supplier", "fill:start_date",
                    "fill:end_date", "fill:estimated_commission",
                    "fill:total_sales_amount", "fill:supplier_reference">>
CommonSteps == <<"fill:booking_date", "supplier", "fill:start_date", "fill:end_date",
                 "currency", "fill:estimated_commission", "fill:total_sales_amount",
                 "fill:supplier_reference">>

TypeSteps(t) ==
    CASE t = "Actividad" -> <<"clear:activity_name", "fill:activity_name">>
      [] t = "Car"       -> <<"fill:car_rental_company">>
      [] t = "Cruise"    -> <<"fill:cruise_company", "fill:vessel_name">>
      [] t = "Hotel"     -> <<"fill:hotel_name">>
      [] t = "Package"   -> <<"click:package_activity_choice",
                              "click:package_hotel_choice", "currency",
                              "fill:activity_name">>
      [] OTHER           -> <<>>

\* What a component add does before the Save-Verifier, in order.  An unknown type
\* raises right after the type menu was opened.
\* (MutPreSaveSteps: a type that is not known is filled in like an Activity.)
MutPreSaveSteps(t) ==
    <<"click:component_dropdown">>
    \o (IF t \in KnownTypes
        THEN <<"click:component_" \o t>> \o CommonSteps \o TypeSteps(t)
        ELSE CommonSteps \o TypeSteps("Actividad"))
PreSaveSteps(t) ==
    <<"click:component_dropdown">>
    \o (IF t \in KnownTypes
        THEN <<"click:component_" \o t>> \o CommonSteps \o TypeSteps(t)
        ELSE <<>>)

\* The steps of the add of the component c: the supplier reference field is filled
\* with c["booking_reference"].
ComponentSteps(c) ==
    [i \in DOMAIN PreSaveSteps(c.type) |->
        IF PreSaveSteps(c.type)[i] = "fill:supplier_reference"
        THEN "fill:supplier_reference=" \o c.booking_reference
        ELSE PreSaveSteps(c.type)[i]]

SaveDefault == [btnVisible |-> TRUE, click |-> "ok", validation |-> FALSE,
                nav |-> TRUE, ctrl |-> FALSE, content |-> FALSE]
ComponentDefault == [failAt |-> 0, sup |-> SupplierDefault, cur |-> "ok",
                     cur2 |-> "ok", save |-> SaveDefault]

Min(a, b) == IF a <= b THEN a ELSE b
IndicesOf(todo, step) == {i \in DOMAIN todo : todo[i] = step}
FirstIndex(todo, step) == CHOOSE i \in IndicesOf(todo, step) :
                              \A j \in IndicesOf(todo, step) : i <= j
LastIndex(todo, step) == CHOOSE i \in IndicesOf(todo, step) :
                             \A j \in IndicesOf(todo, step) : j <= i

\* The interactions of the first k steps, given the interactions of each step.
RECURSIVE Interactions(_, _)
Interactions(perStep, k) ==
    IF k = 0 THEN <<>> ELSE Interactions(perStep, k - 1) \o perStep[k]

\* _new_component(c): the steps run in order and the first one that raises ends the
\* component add; when none raises, the Save-Verifier runs with the component's
\* booking reference.  (The Package builder sets the currency a second time.)
_new_component(c, ce) ==
    LET todo == ComponentSteps(c)
        n == Len(todo)
        known == c.type \in KnownTypes
        sup == _add_supplier(ce.sup)
        iSup == IF known THEN FirstIndex(todo, "supplier") ELSE n + 1
        iCur == IF known THEN FirstIndex(todo, "currency") ELSE n + 1
        iCur2 == IF known THEN LastIndex(todo, "currency") ELSE n + 1
        kTimeout == IF ce.failAt > 0 THEN ce.failAt ELSE n + 1
        kSup == IF sup.ok THEN n + 1 ELSE iSup
        cur1 == _set_currency_usd(ce.cur)
        cur2 == _set_currency_usd(ce.cur2)
        kCur == IF cur1.err = "none" THEN n + 1 ELSE iCur
        kCur2 == IF iCur2 # iCur /\ cur2.err # "none" THEN iCur2 ELSE n + 1
        first == Min(Min(kTimeout, kSup), Min(kCur, kCur2))
        reached == first - 1
        currency == IF first = kCur THEN cur1 ELSE cur2
        perStep == [i \in 1..n |->
                       IF todo[i] = "supplier" THEN sup.events
                       ELSE IF todo[i] = "currency"
                            THEN (IF i = iCur THEN cur1.events ELSE cur2.events)
                       ELSE <<todo[i]>>]
        events == Interactions(perStep, reached)
                  \o (IF first > n \/ first = kTimeout THEN <<>> ELSE perStep[first])
        verified == _save_component_and_verify(c.booking_reference, ce.save)
    IN  IF first > n
        THEN IF known
             THEN [err |-> verified.err, events |-> events \o verified.events,
                   dumps |-> verified.dumps, save |-> verified.save]
             ELSE [err |-> "UnknownComponentType", events |-> events,
                   dumps |-> <<>>, save |-> NoSave]
        ELSE IF first = kTimeout \/ first = kSup
        THEN [err |-> "Timeout", events |-> events, dumps |-> <<>>, save |-> NoSave]
        ELSE [err |-> currency.err, events |-> events, dumps |-> currency.dumps,
              save |-> NoSave]

\* Whether a sequence of browser interactions activates the final submit control
\* (a click that raised did not).
FinalClickIn(events) ==
    IF \E i \in DOMAIN events :
          /\ events[i] \in {"click:" \o final_submit, "jsclick:" \o final_submit}
          /\ ~(i < Len(events) /\ events[i + 1] = "jsclick:" \o js_save_selector)
    THEN 1 ELSE 0

(***************************************************************************)
(* Final submit (_final_submit_commission_form) after hub and record open.  *)
(***************************************************************************)
FinalFailures == {"none", "hub", "open", "btn_visible", "btn_click", "networkidle", "row"}
FinalEnvs == [failAt : FinalFailures, banner : BOOLEAN, hubTable : BOOLEAN]

FinalSteps(form_id) ==
    <<"hub", "open:" \o form_id, "wait:" \o final_submit, "click:" \o final_submit,
      "wait:networkidle">>

FinalFailIndex(f) ==
    CASE f = "hub" -> 1 [] f = "open" -> 2 [] f = "btn_visible" -> 3
      [] f = "btn_click" -> 4 [] f = "networkidle" -> 5 [] OTHER -> 6

\* (MutFinalSubmitForm: the form id is returned also when neither the banner nor the
\* hub table is there.)
MutFinalSubmitForm(form_id, fe) ==
    LET all == FinalSteps(form_id)
        k == FinalFailIndex(fe.failAt)
    IN  IF k <= Len(all)
        THEN [err |-> "Timeout", events |-> Prefix(all, k - 1), conf |-> NoValue]
        ELSE IF fe.banner
        THEN [err |-> "none", events |-> Append(all, "seen:banner"), conf |-> form_id]
        ELSE IF ~fe.hubTable
        THEN [err |-> "none", events |-> all, conf |-> form_id]
        ELSE IF fe.failAt = "row"
        THEN [err |-> "Timeout", events |-> all, conf |-> NoValue]
        ELSE [err |-> "none", events |-> Append(all, "seen:row:" \o form_id),
              conf |-> form_id]
_final_submit_commission_form(form_id, fe) ==
    LET all == FinalSteps(form_id)
        k == FinalFailIndex(fe.failAt)
    IN  IF k <= Len(all)
        THEN [err |-> "Timeout", events |-> Prefix(all, k - 1), conf |-> NoValue]
        ELSE IF fe.banner
        THEN [err |-> "none", events |-> Append(all, "seen:banner"), conf |-> form_id]
        ELSE IF ~fe.hubTable
        THEN [err |-> "FinalSubmitUnverified", events |-> all, conf |-> NoValue]
        ELSE IF fe.failAt = "row"
        THEN [err |-> "Timeout", events |-> all, conf |-> NoValue]
        ELSE [err |-> "none", events |-> Append(all, "seen:row:" \o form_id),
              conf |-> form_id]

(***************************************************************************)
(* The public operations of PlaywrightPortalClient, as steps on the client  *)
(* state.  sf: the step of _start that fails.  (A value an action uses more *)
(* than once is bound with \E over a singleton, which evaluates it once.)   *)
(***************************************************************************)
Running(op) == [op |-> op, status |-> "running", err |-> "none", conf |-> NoValue]

\* The end of a step that calls _debug_dump with the tags and then ends as res: an
\* exception that leaves _debug_dump takes the place of res.  ifCaptured is the end of
\* the same step when every screenshot is written.
Dump(h, tags, res) ==
    /\ dumps' = tags
    /\ \E shotOk \in ShotEnvs(tags) :
          \E dd \in {_debug_dump(h, tags, shotOk)}, ok \in {_debug_dump(h, tags, TRUE)} :
              /\ written' = dd.written
              /\ result' = IF dd.err = "none" THEN res ELSE Raised(res.op, dd.err)
              /\ ifCaptured' = IF ok.err = "none" THEN res ELSE Raised(res.op, ok.err)

\* What an operation that ends before its try block leaves behind.
EndedAtStart(op, h, err) ==
    /\ SetHandles(h)
    /\ trace' = <<"start">>
    /\ Dump(h, <<>>, Raised(op, err))

LoginSteps == <<"click:login_open", "wait:login_modal", "fill:username",
                "fill:password", "click:login_submit", "wait:commissions_dropdown">>

\* The landmark after the authentication interaction: present when the last wait
\* succeeded, absent when an earlier step timed out; when the wait for it timed out
\* after the credentials were submitted, it may still appear later.
LandmarkAfter(failAt) ==
    IF failAt = 0 THEN {TRUE}
    ELSE IF failAt = Len(LoginSteps) THEN BOOLEAN
    ELSE {FALSE}

\* login(creds); failAt: the authentication step that times out (0: none).
\* (MutLogin: a login that does not look for the landmark first.)
MutLogin(sf, failAt) ==
    \E s \in {_start(Handles, sf)} :
    LET h == s.h
        lifecycle == _require_page(h)
        failed == failAt > 0
    IN  /\ UNCHANGED <<cur, finalClicks, clickOps>>
        /\ steps' = <<>>
        /\ lastSave' = NoSave
        /\ lastClose' = NoClose
        /\ IF s.err # "none" THEN EndedAtStart("login", h, s.err)
           ELSE IF lifecycle # "none" THEN EndedAtStart("login", h, lifecycle)
           ELSE /\ \E a \in LandmarkAfter(failAt) : SetHandles([h EXCEPT !.authed = a])
                /\ trace' = <<"start">>
                            \o (IF failed THEN Prefix(LoginSteps, failAt - 1)
                                ELSE LoginSteps)
                /\ Dump(h, IF failed THEN <<"login_timeout">> ELSE <<>>,
                        IF failed THEN Raised("login", "LoginTimeout")
                        ELSE Ok("login", NoValue))
login(sf, failAt) ==
    \E s \in {_start(Handles, sf)} :
    LET h == s.h
        lifecycle == _require_page(h)
        failed == failAt > 0
    IN  /\ UNCHANGED <<cur, finalClicks, clickOps>>
        /\ steps' = <<>>
        /\ lastSave' = NoSave
        /\ lastClose' = NoClose
        /\ IF s.err # "none" THEN EndedAtStart("login", h, s.err)
           ELSE IF lifecycle # "none" THEN EndedAtStart("login", h, lifecycle)
           ELSE IF h.authed
           THEN /\ SetHandles(h)
                /\ trace' = <<"start", "check:commissions_dropdown">>
                /\ Dump(h, <<>>, Ok("login", NoValue))
           ELSE /\ \E a \in LandmarkAfter(failAt) : SetHandles([h EXCEPT !.authed = a])
                /\ trace' = <<"start", "check:commissions_dropdown">>
                            \o (IF failed THEN Prefix(LoginSteps, failAt - 1)
                                ELSE LoginSteps)
                /\ Dump(h, IF failed THEN <<"login_timeout">> ELSE <<>>,
                        IF failed THEN Raised("login", "LoginTimeout")
                        ELSE Ok("login", NoValue))

\* submit_sale(payload) up to the for loop over the components; failAt: the step
\* (hub, open, traveler) that times out.
SubmitFailures == {"none", "hub", "open", "traveler"}

\* The record submit_sale opens: payload.get("existing_form_id") or default_form_id
\* (an id that is absent, None or empty gives the default).
\* (MutRecordOf: the payload's id is ignored.)
MutRecordOf(payload) == DefaultFormId
RecordOf(payload) ==
    IF payload.existing_form_id # NoValue THEN payload.existing_form_id
    ELSE DefaultFormId

submit_sale_begin(payload, sf, failAt) ==
    \E s \in {_start(Handles, sf)} :
    LET h == s.h
        lifecycle == _require_page(h)
        form_id == RecordOf(payload)
        plan == <<"hub", "open:" \o form_id>>
                \o (IF payload.client_data THEN <<"traveler">> ELSE <<>>)
        k == CASE failAt = "hub" -> 1 [] failAt = "open" -> 2
               [] failAt = "traveler" /\ payload.client_data -> 3
               [] OTHER -> 0
    IN  /\ UNCHANGED <<finalClicks, clickOps>>
        /\ steps' = <<>>
        /\ lastSave' = NoSave
        /\ lastClose' = NoClose
        /\ IF s.err # "none"
           THEN EndedAtStart("submit_sale", h, s.err) /\ cur' = Idle
           ELSE IF lifecycle # "none"
           THEN EndedAtStart("submit_sale", h, lifecycle) /\ cur' = Idle
           ELSE /\ SetHandles(h)
                /\ trace' = <<"start">> \o (IF k > 0 THEN Prefix(plan, k - 1) ELSE plan)
                /\ Dump(h, IF k > 0 THEN <<"submit_sale_timeout">> ELSE <<>>,
                        IF k > 0 THEN Raised("submit_sale", "SubmitSaleTimeout")
                        ELSE Running("submit_sale"))
                /\ cur' = IF k > 0 THEN Idle
                          ELSE [active |-> TRUE, formId |-> form_id,
                                todo |-> payload.components, done |-> 0]

\* One iteration of the for loop: _new_component on the next component.  A Playwright
\* timeout is caught by submit_sale (screenshot, RuntimeError); any other error
\* propagates as raised.
\* (MutSubmitSaleComponent: an error of a component add that is no timeout is dropped
\* and the loop goes on.)
MutSubmitSaleComponent(c, ce) ==
    \E r \in {_new_component(c, ce)} :
    LET caught == r.err = "Timeout"
        n == FinalClickIn(r.events)
    IN  /\ cur.active /\ cur.todo > 0 /\ steps = <<>>
        /\ UNCHANGED <<pw, browser, context, page, navigated, livePw, authed, lastClose>>
        /\ steps' = r.events
        /\ lastSave' = r.save
        /\ Dump(Handles, r.dumps \o (IF caught THEN <<"submit_sale_timeout">> ELSE <<>>),
                IF ~caught THEN result ELSE Raised("submit_sale", "SubmitSaleTimeout"))
        /\ finalClicks' = finalClicks + n
        /\ clickOps' = IF n > 0 THEN clickOps \cup {"submit_sale"} ELSE clickOps
        /\ trace' = Append(trace, "component")
        /\ cur' = IF ~caught
                  THEN [cur EXCEPT !.todo = cur.todo - 1, !.done = cur.done + 1]
                  ELSE Idle
submit_sale_component(c, ce) ==
    \E r \in {_new_component(c, ce)} :
    LET caught == r.err = "Timeout"
        n == FinalClickIn(r.events)
    IN  /\ cur.active /\ cur.todo > 0 /\ steps = <<>>
        /\ UNCHANGED <<pw, browser, context, page, navigated, livePw, authed, lastClose>>
        /\ steps' = r.events
        /\ lastSave' = r.save
        /\ Dump(Handles, r.dumps \o (IF caught THEN <<"submit_sale_timeout">> ELSE <<>>),
                IF r.err = "none" THEN result
                ELSE Raised("submit_sale", IF caught THEN "SubmitSaleTimeout" ELSE r.err))
        /\ finalClicks' = finalClicks + n
        /\ clickOps' = IF n > 0 THEN clickOps \cup {"submit_sale"} ELSE clickOps
        /\ trace' = Append(trace, "component")
        /\ cur' = IF r.err = "none"
                  THEN [cur EXCEPT !.todo = cur.todo - 1, !.done = cur.done + 1]
                  ELSE Idle

\* One iteration under each environment of a component add: a timeout at one plain
\* step, every behaviour of the supplier widget, of the currency control and of the
\* save.
ComponentStep(c) ==
    \/ \E k \in 1..Len(PreSaveSteps(c.type)) :
           submit_sale_component(c, [ComponentDefault EXCEPT !.failAt = k])
    \/ \E x \in SupplierEnvs :
           submit_sale_component(c, [ComponentDefault EXCEPT !.sup = x])
    \/ \E x \in CurrencyOutcomes, y \in CurrencyOutcomes :
           submit_sale_component(c, [ComponentDefault EXCEPT !.cur = x, !.cur2 = y])
    \/ \E v \in SaveEnvs :
           submit_sale_component(c, [ComponentDefault EXCEPT !.save = v])

\* The for loop moves on to the next component: what is recorded about the component
\* just saved is dropped.
submit_sale_next ==
    /\ cur.active /\ cur.todo > 0 /\ steps # <<>>
    /\ steps' = <<>>
    /\ lastSave' = NoSave
    /\ dumps' = <<>>
    /\ written' = <<>>
    /\ UNCHANGED <<pw, browser, context, page, navigated, livePw, authed, cur, trace,
                   finalClicks, clickOps, result, ifCaptured, lastClose>>

\* The end of submit_sale: the last screenshot and the Submission Result.
submit_sale_return ==
    /\ cur.active /\ cur.todo = 0
    /\ UNCHANGED <<pw, browser, context, page, navigated, livePw, authed, steps,
                   lastSave, finalClicks, clickOps, lastClose>>
    /\ Dump(Handles, <<"safe_mode_done_no_submit">>,
            Ok("submit_sale", cur.formId \o NoSubmitSuffix))
    /\ trace' = Append(trace, "return")
    /\ cur' = Idle

\* final_submit_existing_form(form_id).
final_submit_existing_form(form_id, sf, fe) ==
    \E s \in {_start(Handles, sf)}, r \in {_final_submit_commission_form(form_id, fe)} :
    LET h == s.h
        lifecycle == _require_page(h)
        n == FinalClickIn(r.events)
        op == "final_submit_existing_form"
    IN  /\ UNCHANGED cur
        /\ steps' = <<>>
        /\ lastSave' = NoSave
        /\ lastClose' = NoClose
        /\ IF s.err # "none"
           THEN EndedAtStart(op, h, s.err) /\ UNCHANGED <<finalClicks, clickOps>>
           ELSE IF lifecycle # "none"
           THEN EndedAtStart(op, h, lifecycle) /\ UNCHANGED <<finalClicks, clickOps>>
           ELSE /\ SetHandles(h)
                /\ trace' = <<"start">> \o r.events
                /\ Dump(h, CASE r.err = "none" -> <<"final_submit_ok_" \o form_id>>
                             [] r.err = "Timeout" -> <<"final_submit_timeout_" \o form_id>>
                             [] OTHER -> <<"final_submit_error_" \o form_id>>,
                        CASE r.err = "none" -> Ok(op, r.conf)
                          [] r.err = "Timeout" -> Raised(op, "FinalSubmitTimeout")
                          [] OTHER -> Raised(op, r.err))
                /\ finalClicks' = finalClicks + n
                /\ clickOps' = IF n > 0 THEN clickOps \cup {op} ELSE clickOps

\* close() as a public operation.
close_session ==
    \E rf \in CloseEnvs(Handles) : \E r \in {close(Handles, rf)} :
        /\ UNCHANGED <<cur, finalClicks, clickOps>>
        /\ steps' = <<>>
        /\ lastSave' = NoSave
        /\ SetHandles(r.h)
        /\ lastClose' = [called |-> TRUE, before |-> <<pw, browser, context, page>>,
                         released |-> r.released, raised |-> r.err # "none"]
        /\ trace' = <<"close">>
        /\ Dump(r.h, <<>>, IF r.err = "none" THEN Ok("close", NoValue)
                           ELSE Raised("close", r.err))

(***************************************************************************)
(* The date helper: _fill_date and what it calls.  Text is a sequence of    *)
(* one-character strings, so that padding, upper-casing and the substring   *)
(* tests of the code are computed and not assumed.                          *)
(***************************************************************************)
DigitChars == <<"0", "1", "2", "3", "4", "5", "6", "7", "8", "9">>
LowerChars == <<"a", "d", "e", "m", "t", "x", "y">>
UpperChars == <<"A", "D", "E", "M", "T", "X", "Y">>

\* String.toUpperCase / toLowerCase of the attribute text.
UpperOf(c) == IF \E k \in DOMAIN LowerChars : LowerChars[k] = c
              THEN UpperChars[CHOOSE k \in DOMAIN LowerChars : LowerChars[k] = c]
              ELSE c
LowerOf(c) == IF \E k \in DOMAIN UpperChars : UpperChars[k] = c
              THEN LowerChars[CHOOSE k \in DOMAIN UpperChars : UpperChars[k] = c]
              ELSE c
toUpperCase(s) == [i \in DOMAIN s |-> UpperOf(s[i])]
toLowerCase(s) == [i \in DOMAIN s |-> LowerOf(s[i])]

\* Python's `sub in s`.
Contains(s, sub) ==
    \E i \in 1..(Len(s) + 1) :
        i + Len(sub) - 1 <= Len(s) /\ SubSeq(s, i, i + Len(sub) - 1) = sub

\* The decimal digits of n, most significant first; format(n, "0<w>d") pads them with
\* zeros on the left up to the width w and never truncates.
RECURSIVE Digits(_)
Digits(n) == IF n < 10 THEN <<DigitChars[n + 1]>>
             ELSE Append(Digits(n \div 10), DigitChars[(n % 10) + 1])
RECURSIVE Zeros(_)
Zeros(k) == IF k <= 0 THEN <<>> ELSE <<"0">> \o Zeros(k - 1)
Pad(n, w) == Zeros(w - Len(Digits(n))) \o Digits(n)

\* datetime.date: the proleptic Gregorian calendar, years 1..9999.
IsLeap(y) == (y % 4 = 0 /\ y % 100 # 0) \/ y % 400 = 0
DaysIn(y, m) == IF m = 2 THEN (IF IsLeap(y) THEN 29 ELSE 28)
                ELSE IF m \in {4, 6, 9, 11} THEN 30 ELSE 31
Years == {7, 2024}
Dates == {dt \in [year : Years, month : 1..12, day : 1..31] :
              dt.day <= DaysIn(dt.year, dt.month)}
NoDate == [year |-> 0, month |-> 0, day |-> 0]

\* The input control: its type, placeholder and aria-label attributes as the page
\* gives them (an attribute the control lacks reads as the empty text).
TypeAttrs == {<<>>, <<"t", "e", "x", "t">>, <<"d", "a", "t", "e">>,
              <<"D", "a", "t", "e">>}
HintAttrs == {<<>>,
              <<"d", "d", "/", "m", "m", "/", "y", "y", "y", "y">>,
              <<"M", "M", "/", "D", "D", "/", "Y", "Y", "Y", "Y">>,
              <<"m", "m", "/", "d", "d">>,
              <<"D", "a", "t", "e">>}
Controls == [type : TypeAttrs, placeholder : HintAttrs, aria : HintAttrs]
NoControl == [type |-> <<>>, placeholder |-> <<>>, aria |-> <<>>]
NotFilled == <<>>

\* _detect_date_format: "DMY" when the upper-cased placeholder and aria-label, joined
\* by a blank, contain DD/MM; otherwise "MDY".
_detect_date_format(c) ==
    LET hint == toUpperCase(c.placeholder) \o <<" ">> \o toUpperCase(c.aria)
    IN  IF Contains(hint, <<"D", "D", "/", "M", "M">>) THEN "DMY"
        ELSE IF Contains(hint, <<"M", "M", "/", "D", "D">>) THEN "MDY"
        ELSE "MDY"

\* _format_date.
\* (MutFormatDate: day and month are written without zero padding.)
MutFormatDate(dt, fmt) ==
    IF fmt = "DMY"
    THEN Digits(dt.day) \o <<"/">> \o Digits(dt.month) \o <<"/">> \o Pad(dt.year, 4)
    ELSE Digits(dt.month) \o <<"/">> \o Digits(dt.day) \o <<"/">> \o Pad(dt.year, 4)
_format_date(dt, fmt) ==
    IF fmt = "DMY"
    THEN Pad(dt.day, 2) \o <<"/">> \o Pad(dt.month, 2) \o <<"/">> \o Pad(dt.year, 4)
    ELSE Pad(dt.month, 2) \o <<"/">> \o Pad(dt.day, 2) \o <<"/">> \o Pad(dt.year, 4)

\* date.isoformat().
isoformat(dt) ==
    Pad(dt.year, 4) \o <<"-">> \o Pad(dt.month, 2) \o <<"-">> \o Pad(dt.day, 2)

\* The format _fill_date chooses for a control: "ISO" for a native date input.
ChosenFormat(c) ==
    IF toLowerCase(c.type) = <<"d", "a", "t", "e">> THEN "ISO"
    ELSE _detect_date_format(c)

\* _fill_date: the text it fills into the control.
_fill_date(c, dt) ==
    IF toLowerCase(c.type) = <<"d", "a", "t", "e">> THEN isoformat(dt)
    ELSE _format_date(dt, _detect_date_format(c))

(***************************************************************************)
(* Callers.  The client drives one workflow sequentially: a caller invokes  *)
(* one public operation at a time and takes its outcome before the next.    *)
(*   "workflow"  at most one login, then one record operation (submit_sale  *)
(*               with up to MaxComponents components, or final submit),     *)
(*               then close;                                                *)
(*   "free"      up to MaxCalls public operations in any order; its         *)
(*               payloads carry no form id, no traveler and no component    *)
(*               (none of them touches the session handles).                *)
(***************************************************************************)
ClientInit ==
    /\ pw = FALSE /\ browser = FALSE /\ context = FALSE /\ page = FALSE
    /\ navigated = FALSE
    /\ livePw = 0
    /\ authed = FALSE
    /\ cur = Idle
    /\ trace = <<>>
    /\ steps = <<>>
    /\ lastSave = NoSave
    /\ dumps = <<>>
    /\ written = <<>>
    /\ finalClicks = 0
    /\ clickOps = {}
    /\ result = NoResult
    /\ ifCaptured = NoResult
    /\ lastClose = NoClose

CliOff ==
    /\ cliPc = "off" /\ cliCmd = "none" /\ cliAck = FALSE /\ cliFormId = NoValue
    /\ cliErr = "none" /\ cliOut = NoValue /\ saleExists = FALSE

NoOutcome == [sale_id |-> 0, confirmation_id |-> NoValue]
NoSync == [called |-> FALSE]

\* The parts of the model a specification does not exercise stay as constructed.
DateOff == dateArg = NoDate /\ control = NoControl /\ filled = NotFilled
SvcOff ==
    /\ dbRows = {} /\ sessRows = {} /\ nextId = 1
    /\ svcPc = "off" /\ svcSale = 0 /\ portalLog = <<>>
    /\ svcOutcome = NoOutcome /\ svcErr = "none" /\ svcCalls = 0
TripOff == tripStatus = "none" /\ tripSales = <<>> /\ lastSync = NoSync
NoOp == [op |-> "none", n |-> 0]
WaitOff == wOp = NoOp /\ wPc = 0 /\ wLeft = 0 /\ wEnd = "off"
AuxOff == DateOff /\ SvcOff /\ TripOff /\ WaitOff

Init == ClientInit /\ calls = <<>> /\ caller = "workflow" /\ CliOff /\ AuxOff
InitFree == ClientInit /\ calls = <<>> /\ caller = "free" /\ CliOff /\ AuxOff

RecordOps == {"submit_sale", "final_submit_existing_form"}
\* Whether the operation that ends in this step began the authentication interaction
\* (the click on the login opener and what follows it, also when that click timed out).
AuthAttempted ==
    /\ result'.op = "login"
    /\ \/ result'.err = "LoginTimeout"
       \/ \E i \in DOMAIN trace' : trace'[i] \in Range(LoginSteps)

\* An entry of the call log: the operation, its form id argument (of submit_sale: the
\* payload's existing_form_id), whether it began the
\* authentication interaction, and whether the session showed the post-login landmark
\* when the step ended.
Call(op, arg) == [op |-> op, arg |-> arg, auth |-> AuthAttempted, authed |-> authed',
                  traveler |-> FALSE, components |-> 0]

\* The entry of a submit_sale: also whether the payload has traveler data and how many
\* components it has.
SubmitCall(payload) ==
    [Call("submit_sale", payload.existing_form_id)
        EXCEPT !.traveler = payload.client_data, !.components = payload.components]
Called(op) == {i \in DOMAIN calls : calls[i].op = op}

\* The calls a workflow may make next, given those it made.
WorkflowAllows(op) ==
    CASE op = "login" -> calls = <<>>
      [] op \in RecordOps -> \A i \in DOMAIN calls : calls[i].op = "login"
      [] OTHER -> Called("close") = {}

CanCall(op) ==
    /\ caller \in {"workflow", "free"}
    /\ ~cur.active /\ result = NoResult
    /\ IF caller = "free" THEN Len(calls) < MaxCalls ELSE WorkflowAllows(op)

CallerPayloads ==
    IF caller = "free" THEN {p \in Payloads : /\ p.existing_form_id = NoValue
                                                 /\ ~p.client_data
                                                 /\ p.components = 0}
    ELSE Payloads

CallLogin ==
    /\ CanCall("login")
    /\ \E sf \in StartEnvs, failAt \in 0..Len(LoginSteps) : login(sf, failAt)
    /\ calls' = Append(calls, Call("login", NoValue))
    /\ UNCHANGED <<caller, auxVars, cliVars>>

CallSubmitSale ==
    /\ CanCall("submit_sale")
    /\ \E payload \in CallerPayloads, sf \in StartEnvs, failAt \in SubmitFailures :
           /\ submit_sale_begin(payload, sf, failAt)
           /\ calls' = Append(calls, SubmitCall(payload))
    /\ UNCHANGED <<caller, auxVars, cliVars>>

StepComponent ==
    /\ caller = "workflow"
    /\ cur.active /\ cur.todo > 0 /\ steps = <<>>
    /\ \E c \in Components : ComponentStep(c)
    /\ UNCHANGED <<calls, caller, auxVars, cliVars>>

StepNext ==
    /\ caller = "workflow"
    /\ submit_sale_next
    /\ UNCHANGED <<calls, caller, auxVars, cliVars>>

StepReturn ==
    /\ caller \in {"workflow", "free"}
    /\ submit_sale_return
    /\ UNCHANGED <<calls, caller, auxVars, cliVars>>

CallFinalSubmit ==
    /\ CanCall("final_submit_existing_form")
    /\ \E form_id \in FormIds, sf \in StartEnvs, fe \in FinalEnvs :
           /\ final_submit_existing_form(form_id, sf, fe)
           /\ calls' = Append(calls, Call("final_submit_existing_form", form_id))
    /\ UNCHANGED <<caller, auxVars, cliVars>>

CallClose ==
    /\ CanCall("close")
    /\ close_session
    /\ calls' = Append(calls, Call("close", NoValue))
    /\ UNCHANGED <<caller, auxVars, cliVars>>

\* The caller has the outcome of the operation that ended and goes on.
Continue ==
    /\ caller \in {"workflow", "free"}
    /\ ~cur.active /\ result # NoResult
    /\ result' = NoResult
    /\ ifCaptured' = NoResult
    /\ trace' = <<>>
    /\ steps' = <<>>
    /\ lastSave' = NoSave
    /\ dumps' = <<>>
    /\ written' = <<>>
    /\ lastClose' = NoClose
    /\ UNCHANGED <<pw, browser, context, page, navigated, livePw, authed, cur,
                   finalClicks, clickOps, calls, caller, auxVars, cliVars>>

Next ==
    \/ CallLogin
    \/ CallSubmitSale
    \/ StepComponent
    \/ StepNext
    \/ StepReturn
    \/ CallFinalSubmit
    \/ CallClose
    \/ Continue

NextFree ==
    \/ CallLogin
    \/ CallSubmitSale
    \/ StepReturn
    \/ CallFinalSubmit
    \/ CallClose
    \/ Continue

Spec == Init /\ [][Next]_vars
SpecFree == InitFree /\ [][NextFree]_vars

(***************************************************************************)
(* run_submit_sale.main: the command line entry point.  The client is       *)
(* constructed, then inside try: login, the subcommand; finally: close.     *)
(* cliErr is the exception main ends with, cliOut the confirmation id it    *)
(* prints.                                                                  *)
(***************************************************************************)
Commands == {"submit-sale", "portal-existing-form", "portal-final-submit"}

InitCli ==
    /\ ClientInit
    /\ calls = <<>>
    /\ caller = "cli"
    /\ cliPc = "login"
    /\ cliCmd \in Commands
    /\ cliAck \in (IF cliCmd = "portal-final-submit" THEN BOOLEAN ELSE {FALSE})
    /\ cliFormId \in (IF cliCmd = "submit-sale" THEN {NoValue} ELSE FormIds)
    /\ saleExists \in (IF cliCmd = "submit-sale" THEN BOOLEAN ELSE {FALSE})
    /\ cliErr = "none"
    /\ cliOut = NoValue
    /\ AuxOff

\* The exception of a portal call propagates to the finally block; its normal return
\* lets main go on at `then`.
\* (MutAfterCall: an error that leaves main without running the finally block.)
MutAfterCall(then) ==
    IF result'.status = "error"
    THEN cliErr' = result'.err /\ cliPc' = "done"
    ELSE cliErr' = cliErr /\ cliPc' = then
AfterCall(then) ==
    IF result'.status = "error"
    THEN cliErr' = result'.err /\ cliPc' = "close"
    ELSE cliErr' = cliErr /\ cliPc' = then

\* portal.login(creds), the first statement of the try block.
CliLogin ==
    /\ cliPc = "login"
    /\ \E sf \in StartEnvs, failAt \in 0..Len(LoginSteps) : login(sf, failAt)
    /\ calls' = Append(calls, Call("login", NoValue))
    /\ AfterCall("dispatch")
    /\ UNCHANGED <<caller, auxVars, cliCmd, cliAck, cliFormId, cliOut, saleExists>>

\* portal-existing-form: the JSON files are loaded (which may raise), then submit_sale
\* is called with the form id of the command line.
CliExistingForm ==
    /\ cliPc = "dispatch" /\ cliCmd = "portal-existing-form"
    /\ \/ /\ cliErr' = "JsonError"
          /\ cliPc' = "close"
          /\ UNCHANGED <<clientVars, calls>>
       \/ /\ \E payload \in {p \in Payloads : p.existing_form_id = cliFormId},
                sf \in StartEnvs, failAt \in SubmitFailures :
                  /\ submit_sale_begin(payload, sf, failAt)
                  /\ calls' = Append(calls, SubmitCall(payload))
          /\ AfterCall("in_submit")
    /\ UNCHANGED <<caller, auxVars, cliCmd, cliAck, cliFormId, cliOut, saleExists>>

\* What submit_sale reads of a payload that has none of the keys existing_form_id,
\* client_data, components.
BuiltPayload == [existing_form_id |-> NoValue, client_data |-> FALSE, components |-> 0]

\* The sales rows the service may load: the sale's own columns, and whether it has a
\* client and a trip.
LoadedSales == [id : {1, 2}, confirmation_number : {NoValue, "CONF-9"},
             client : BOOLEAN, trip : BOOLEAN]

\* _build_payload(sale): the keys of the dict it returns (the dates, the destination
\* and the amount are mapped like the provider).
\* (MutBuildPayload: the client goes under the key client_data.)
MutBuildPayload(sale) ==
    [sale_id |-> sale.id,
     provider |-> "provider",
     confirmation_number |-> sale.confirmation_number,
     client_data |-> IF sale.client THEN "client" ELSE NoValue,
     trip |-> IF sale.trip THEN "trip" ELSE NoValue]
_build_payload(sale) ==
    [sale_id |-> sale.id,
     provider |-> "provider",
     confirmation_number |-> sale.confirmation_number,
     client |-> IF sale.client THEN "client" ELSE NoValue,
     trip |-> IF sale.trip THEN "trip" ELSE NoValue]

\* payload.get("existing_form_id"), payload.get("client_data") and
\* payload.get("components", []) as submit_sale reads them: a missing key is None, and
\* the traveler is added when client_data is truthy.
PayloadRead(d) ==
    [existing_form_id |-> IF "existing_form_id" \in DOMAIN d
                          THEN d["existing_form_id"] ELSE NoValue,
     client_data |-> IF "client_data" \in DOMAIN d
                     THEN d["client_data"] # NoValue ELSE FALSE,
     components |-> IF "components" \in DOMAIN d THEN d["components"] ELSE 0]

\* submit-sale: SalesSubmissionService.submit_sale loads the sale (NotFoundError when
\* it does not exist) ...
CliServiceLoad ==
    /\ cliPc = "dispatch" /\ cliCmd = "submit-sale"
    /\ IF saleExists THEN cliErr' = cliErr /\ cliPc' = "svc_login"
       ELSE cliErr' = "NotFoundError" /\ cliPc' = "close"
    /\ UNCHANGED <<clientVars, calls, caller, auxVars, cliCmd, cliAck, cliFormId, cliOut,
                   saleExists>>

\* ... logs in ...
CliServiceLogin ==
    /\ cliPc = "svc_login"
    /\ \E sf \in StartEnvs, failAt \in 0..Len(LoginSteps) : login(sf, failAt)
    /\ calls' = Append(calls, Call("login", NoValue))
    /\ AfterCall("svc_submit")
    /\ UNCHANGED <<caller, auxVars, cliCmd, cliAck, cliFormId, cliOut, saleExists>>

\* ... and calls portal.submit_sale with the payload it built.
CliServiceSubmit ==
    /\ cliPc = "svc_submit"
    /\ \E sale \in LoadedSales :
       \E payload \in {PayloadRead(_build_payload(sale))} :
          /\ \E sf \in StartEnvs, failAt \in SubmitFailures :
                 submit_sale_begin(payload, sf, failAt)
          /\ calls' = Append(calls, SubmitCall(payload))
    /\ AfterCall("in_submit")
    /\ UNCHANGED <<caller, auxVars, cliCmd, cliAck, cliFormId, cliOut, saleExists>>

\* submit_sale running under main: its for loop and its return.
CliComponent ==
    /\ cliPc = "in_submit"
    /\ cur.active /\ cur.todo > 0 /\ steps = <<>>
    /\ \E c \in Components : ComponentStep(c)
    /\ AfterCall("in_submit")
    /\ UNCHANGED <<calls, caller, auxVars, cliCmd, cliAck, cliFormId, cliOut, saleExists>>

CliNext ==
    /\ cliPc = "in_submit"
    /\ submit_sale_next
    /\ UNCHANGED <<calls, caller, auxVars, cliVars>>

\* submit_sale returns.  Under submit-sale the service then stores the confirmation
\* id ("store" fails: nothing is printed) and the session context manager commits
\* after the print ("commit" fails).
DbOutcomes == IF cliCmd = "submit-sale" THEN {"ok", "store", "commit"} ELSE {"ok"}

CliSubmitReturn ==
    /\ cliPc = "in_submit"
    /\ submit_sale_return
    /\ \E db \in DbOutcomes :
          /\ cliOut' = IF db = "store" THEN NoValue ELSE result'.conf
          /\ cliErr' = IF db = "ok" THEN cliErr ELSE "DbError"
    /\ cliPc' = "close"
    /\ UNCHANGED <<calls, caller, auxVars, cliCmd, cliAck, cliFormId, saleExists>>

\* portal-final-submit: the acknowledgment flag is checked, after login, and only
\* with the flag final_submit_existing_form is called.
\* (MutCliFinalSubmit: the final submit is given the default form id instead of the
\* one of the command line.)
MutCliFinalSubmit ==
    /\ cliPc = "dispatch" /\ cliCmd = "portal-final-submit"
    /\ \/ /\ ~cliAck
          /\ cliErr' = "Refusal"
          /\ cliPc' = "close"
          /\ UNCHANGED <<clientVars, calls, cliOut>>
       \/ /\ cliAck
          /\ \E sf \in StartEnvs, fe \in FinalEnvs :
                final_submit_existing_form(DefaultFormId, sf, fe)
          /\ calls' = Append(calls, Call("final_submit_existing_form", DefaultFormId))
          /\ AfterCall("close")
          /\ cliOut' = result'.conf
    /\ UNCHANGED <<caller, auxVars, cliCmd, cliAck, cliFormId, saleExists>>
CliFinalSubmit ==
    /\ cliPc = "dispatch" /\ cliCmd = "portal-final-submit"
    /\ \/ /\ ~cliAck
          /\ cliErr' = "Refusal"
          /\ cliPc' = "close"
          /\ UNCHANGED <<clientVars, calls, cliOut>>
       \/ /\ cliAck
          /\ \E sf \in StartEnvs, fe \in FinalEnvs :
                final_submit_existing_form(cliFormId, sf, fe)
          /\ calls' = Append(calls, Call("final_submit_existing_form", cliFormId))
          /\ AfterCall("close")
          /\ cliOut' = result'.conf
    /\ UNCHANGED <<caller, auxVars, cliCmd, cliAck, cliFormId, saleExists>>

\* finally: portal.close()
CliClose ==
    /\ cliPc = "close"
    /\ close_session
    /\ calls' = Append(calls, Call("close", NoValue))
    /\ cliPc' = "done"
    /\ UNCHANGED <<caller, auxVars, cliCmd, cliAck, cliFormId, cliErr, cliOut, saleExists>>

NextCli ==
    \/ CliLogin
    \/ CliExistingForm
    \/ CliServiceLoad
    \/ CliServiceLogin
    \/ CliServiceSubmit
    \/ CliComponent
    \/ CliNext
    \/ CliSubmitReturn
    \/ CliFinalSubmit
    \/ CliClose

SpecCli == InitCli /\ [][NextCli]_vars

\* The exception main ends with: the one close() raised in the finally block replaces
\* the one of the try block.
MainRaised == IF lastClose.raised THEN "ReleaseError" ELSE cliErr

(***************************************************************************)
(* SalesSubmissionService.submit_sale, called inside get_session(): the     *)
(* session context manager commits when the body completes and rolls back   *)
(* when it raises.  The portal is any PortalClient: login returns or        *)
(* raises, submit_sale returns a confirmation id or raises.                 *)
(***************************************************************************)
SaleIds == {1, 2}            \* the sales rows that exist
RequestedSaleIds == {1, 2, 3}
NoRef == "NULL"              \* commission_form_ref IS NULL
ConfirmationIds == {DefaultFormId \o NoSubmitSuffix, "FAKE-CONF-123"}

\* CommissionRepository.get_by_sale_id: the rows of the sale (first() takes one).
get_by_sale_id(rows, sale_id) == {r \in rows : r.sale_id = sale_id}

\* CommissionRepository.create: a row with no form ref; commissions.sale_id is UNIQUE.
create(rows, id, sale_id) ==
    IF get_by_sale_id(rows, sale_id) # {}
    THEN [rows |-> rows, err |-> "IntegrityError"]
    ELSE [rows |-> rows \cup {[id |-> id, sale_id |-> sale_id, form_ref |-> NoRef]},
          err |-> "none"]

\* CommissionRepository.set_form_ref.
\* (MutSetFormRef: the form ref is written only into a row that has none yet.)
MutSetFormRef(rows, sale_id, form_ref) ==
    IF get_by_sale_id(rows, sale_id) = {}
    THEN [rows |-> rows, err |-> "NotFoundError"]
    ELSE [rows |-> {IF r.sale_id = sale_id /\ r.form_ref = NoRef
                    THEN [r EXCEPT !.form_ref = form_ref] ELSE r : r \in rows},
          err |-> "none"]
set_form_ref(rows, sale_id, form_ref) ==
    IF get_by_sale_id(rows, sale_id) = {}
    THEN [rows |-> rows, err |-> "NotFoundError"]
    ELSE [rows |-> {IF r.sale_id = sale_id
                    THEN [r EXCEPT !.form_ref = form_ref] ELSE r : r \in rows},
          err |-> "none"]

\* The commissions table before the first call: empty, or one row of sale 1 with or
\* without a form ref.
InitialTables ==
    {{}} \cup {{[id |-> 1, sale_id |-> 1, form_ref |-> f]} : f \in {NoRef, "OLD-REF"}}

InitService ==
    /\ ClientInit /\ calls = <<>> /\ caller = "none" /\ CliOff
    /\ DateOff /\ TripOff /\ WaitOff
    /\ dbRows \in InitialTables
    /\ sessRows = dbRows
    /\ nextId = 2
    /\ svcPc = "idle" /\ svcSale = 0 /\ portalLog = <<>>
    /\ svcOutcome = NoOutcome /\ svcErr = "none" /\ svcCalls = 0

ServiceFrame == UNCHANGED <<portalVars, dateVars, tripVars, waitVars>>

\* with get_session() as session: service.submit_sale(session=..., sale_id=...)
ServiceBegin ==
    /\ svcPc = "idle" /\ svcCalls < MaxServiceCalls
    /\ \E sale_id \in RequestedSaleIds : svcSale' = sale_id
    /\ svcCalls' = svcCalls + 1
    /\ svcPc' = "load"
    /\ sessRows' = dbRows
    /\ portalLog' = <<>>
    /\ svcOutcome' = NoOutcome
    /\ svcErr' = "none"
    /\ UNCHANGED <<dbRows, nextId>>
    /\ ServiceFrame

\* 1) sales_repo.get(sale_id): NotFoundError when the sale does not exist.
ServiceLoadSale ==
    /\ svcPc = "load"
    /\ IF svcSale \in SaleIds
       THEN svcPc' = "ensure" /\ svcErr' = svcErr
       ELSE svcPc' = "failed" /\ svcErr' = "NotFoundError"
    /\ UNCHANGED <<dbRows, sessRows, nextId, svcSale, portalLog, svcOutcome, svcCalls>>
    /\ ServiceFrame

\* 2) get_by_sale_id, and create when there is no commission row.
ServiceEnsureCommission ==
    /\ svcPc = "ensure"
    /\ IF get_by_sale_id(sessRows, svcSale) # {}
       THEN /\ svcPc' = "login"
            /\ UNCHANGED <<sessRows, nextId, svcErr>>
       ELSE \E c \in {create(sessRows, nextId, svcSale)} :
            /\ sessRows' = c.rows
            /\ nextId' = nextId + 1
            /\ svcErr' = c.err
            /\ svcPc' = IF c.err = "none" THEN "login" ELSE "failed"
    /\ UNCHANGED <<dbRows, svcSale, portalLog, svcOutcome, svcCalls>>
    /\ ServiceFrame

\* 4) self.portal.login(creds)
ServiceLogin ==
    /\ svcPc = "login"
    /\ portalLog' = Append(portalLog, [op |-> "login", conf |-> NoValue])
    /\ \/ svcPc' = "submit" /\ svcErr' = svcErr
       \/ svcPc' = "failed" /\ svcErr' = "PortalError"
    /\ UNCHANGED <<dbRows, sessRows, nextId, svcSale, svcOutcome, svcCalls>>
    /\ ServiceFrame

\* ... self.portal.submit_sale(payload)
ServiceSubmit ==
    /\ svcPc = "submit"
    /\ \/ \E conf \in ConfirmationIds :
            /\ portalLog' = Append(portalLog, [op |-> "submit_sale", conf |-> conf])
            /\ svcPc' = "store" /\ svcErr' = svcErr
       \/ /\ portalLog' = Append(portalLog, [op |-> "submit_sale", conf |-> NoValue])
          /\ svcPc' = "failed" /\ svcErr' = "PortalError"
    /\ UNCHANGED <<dbRows, sessRows, nextId, svcSale, svcOutcome, svcCalls>>
    /\ ServiceFrame

\* 5) comm_repo.set_form_ref(sale_id, result.confirmation_id), whose flush may fail,
\* and the return of the outcome.
ServiceSetFormRef ==
    /\ svcPc = "store"
    /\ \E conf \in {portalLog[Len(portalLog)].conf} :
       \E u \in {set_form_ref(sessRows, svcSale, conf)} :
          \/ /\ u.err = "none"
             /\ sessRows' = u.rows
             /\ svcOutcome' = [sale_id |-> svcSale, confirmation_id |-> conf]
             /\ svcPc' = "returned" /\ svcErr' = svcErr
          \/ /\ sessRows' = u.rows
             /\ svcOutcome' = svcOutcome
             /\ svcPc' = "failed"
             /\ svcErr' = IF u.err = "none" THEN "DbError" ELSE u.err
    /\ UNCHANGED <<dbRows, nextId, svcSale, portalLog, svcCalls>>
    /\ ServiceFrame

\* get_session: the body completed; session.commit(), or rollback when it raises.
SessionCommit ==
    /\ svcPc = "returned"
    /\ \/ dbRows' = sessRows /\ svcErr' = svcErr /\ sessRows' = sessRows
       \/ dbRows' = dbRows /\ svcErr' = "DbError" /\ sessRows' = dbRows
    /\ svcPc' = "idle"
    /\ UNCHANGED <<nextId, svcSale, portalLog, svcOutcome, svcCalls>>
    /\ ServiceFrame

\* get_session: the body raised; session.rollback() and the exception propagates.
\* (MutSessionRollback: the session is committed although the body raised.)
MutSessionRollback ==
    /\ svcPc = "failed"
    /\ dbRows' = sessRows
    /\ svcPc' = "idle"
    /\ UNCHANGED <<sessRows, nextId, svcSale, portalLog, svcOutcome, svcErr, svcCalls>>
    /\ ServiceFrame
SessionRollback ==
    /\ svcPc = "failed"
    /\ sessRows' = dbRows
    /\ svcPc' = "idle"
    /\ UNCHANGED <<dbRows, nextId, svcSale, portalLog, svcOutcome, svcErr, svcCalls>>
    /\ ServiceFrame

NextService ==
    \/ ServiceBegin
    \/ ServiceLoadSale
    \/ ServiceEnsureCommission
    \/ ServiceLogin
    \/ ServiceSubmit
    \/ ServiceSetFormRef
    \/ SessionCommit
    \/ SessionRollback

SpecService == InitService /\ [][NextService]_vars

(***************************************************************************)
(* services/trip_status.py: the status of one trip, computed from the sales *)
(* of the trip.  Dates are day numbers; NoDay is a date column that is      *)
(* NULL.  The sale statuses Liquidada and Completa are read exactly as      *)
(* Reservada is (none of them is excluded), so Completa stands for both.    *)
(***************************************************************************)
PROXIMO == "Proximo"
VIAJANDO == "Viajando"
FINALIZADO == "Finalizado"
CANCELADO == "Cancelado"
TripStatuses == {PROXIMO, VIAJANDO, FINALIZADO, CANCELADO}
SaleStatuses == {"Reservada", "Completa", "Cancelada", "No aplica"}
NoStatus == "None"           \* computed_status=None, and the None sync returns
Days == 1..3
NoDay == 0
SaleSlots == {1, 2}
SaleRows == [status : SaleStatuses,
             travel_start_date : Days \cup {NoDay},
             travel_end_date : Days \cup {NoDay}]
NoSale == [status |-> "none", travel_start_date |-> NoDay, travel_end_date |-> NoDay]

MinOf(S) == CHOOSE x \in S : \A y \in S : x <= y
MaxOf(S) == CHOOSE x \in S : \A y \in S : y <= x

\* compute_trip_status_from_sales(sales, today=today).
\* (MutCompute: the sales are not filtered by their status.)
MutCompute(sales, today) ==
    LET eligible == sales
        starts == {x.travel_start_date : x \in eligible} \ {NoDay}
        ends == {x.travel_end_date : x \in eligible} \ {NoDay}
        earliest_start == IF starts # {} THEN MinOf(starts) ELSE NoDay
        latest_end == IF ends # {} THEN MaxOf(ends) ELSE NoDay
    IN  [earliest_start |-> earliest_start,
         latest_end |-> latest_end,
         computed_status |->
             IF earliest_start = NoDay THEN NoStatus
             ELSE IF today < earliest_start THEN PROXIMO
             ELSE IF latest_end = NoDay THEN VIAJANDO
             ELSE IF today <= latest_end THEN VIAJANDO
             ELSE FINALIZADO]
compute_trip_status_from_sales(sales, today) ==
    LET excluded == {"Cancelada", "No aplica"}
        eligible == {x \in sales : x.status \notin excluded}
        starts == {x.travel_start_date : x \in eligible} \ {NoDay}
        ends == {x.travel_end_date : x \in eligible} \ {NoDay}
        earliest_start == IF starts # {} THEN MinOf(starts) ELSE NoDay
        latest_end == IF ends # {} THEN MaxOf(ends) ELSE NoDay
    IN  [earliest_start |-> earliest_start,
         latest_end |-> latest_end,
         computed_status |->
             IF earliest_start = NoDay THEN NoStatus
             ELSE IF today < earliest_start THEN PROXIMO
             ELSE IF latest_end = NoDay THEN VIAJANDO
             ELSE IF today <= latest_end THEN VIAJANDO
             ELSE FINALIZADO]

\* sync_trip_status_from_sales: what it returns and the status the trip has after it.
\* (MutSync: the trip's status is not looked at before the computation.)
MutSync(status, sales, today) ==
    LET r == compute_trip_status_from_sales(sales, today)
    IN  IF r.computed_status = NoStatus THEN [ret |-> NoStatus, status |-> status]
        ELSE [ret |-> r.computed_status, status |-> r.computed_status]
sync_trip_status_from_sales(status, sales, today) ==
    IF status = CANCELADO THEN [ret |-> CANCELADO, status |-> status]
    ELSE LET r == compute_trip_status_from_sales(sales, today)
         IN  IF r.computed_status = NoStatus THEN [ret |-> NoStatus, status |-> status]
             ELSE [ret |-> r.computed_status, status |-> r.computed_status]

\* The sales rows of the trip (select(Sale).where(Sale.trip_id == trip_id)).
SalesOfTrip == {tripSales[i] : i \in {j \in SaleSlots : tripSales[j] # NoSale}}

InitTrip ==
    /\ ClientInit /\ calls = <<>> /\ caller = "none" /\ CliOff
    /\ DateOff /\ SvcOff /\ WaitOff
    /\ tripStatus \in TripStatuses
    /\ tripSales = [i \in SaleSlots |-> NoSale]
    /\ lastSync = NoSync

TripFrame == UNCHANGED <<portalVars, dateVars, svcVars, waitVars>>

\* SaleRepository.create / update / delete on a sale of the trip.
SaleCreate ==
    /\ \E i \in SaleSlots, row \in SaleRows :
          /\ tripSales[i] = NoSale
          /\ tripSales' = [tripSales EXCEPT ![i] = row]
    /\ lastSync' = NoSync
    /\ UNCHANGED tripStatus
    /\ TripFrame

SaleUpdate ==
    /\ \E i \in SaleSlots :
          /\ tripSales[i] # NoSale
          /\ \/ \E v \in SaleStatuses : tripSales' = [tripSales EXCEPT ![i].status = v]
             \/ \E v \in Days \cup {NoDay} :
                    tripSales' = [tripSales EXCEPT ![i].travel_start_date = v]
             \/ \E v \in Days \cup {NoDay} :
                    tripSales' = [tripSales EXCEPT ![i].travel_end_date = v]
    /\ lastSync' = NoSync
    /\ UNCHANGED tripStatus
    /\ TripFrame

SaleDelete ==
    /\ \E i \in SaleSlots :
          /\ tripSales[i] # NoSale
          /\ tripSales' = [tripSales EXCEPT ![i] = NoSale]
    /\ lastSync' = NoSync
    /\ UNCHANGED tripStatus
    /\ TripFrame

\* TripRepository.update(trip_id, status=...): the status set by hand.
TripUpdate ==
    /\ \E v \in TripStatuses : tripStatus' = v
    /\ lastSync' = NoSync
    /\ UNCHANGED tripSales
    /\ TripFrame

\* sync_trip_status_from_sales(session, trip_id, today).
Sync ==
    /\ \E today \in Days :
       \E r \in {sync_trip_status_from_sales(tripStatus, SalesOfTrip, today)} :
          /\ tripStatus' = r.status
          /\ lastSync' = [called |-> TRUE, today |-> today, before |-> tripStatus,
                          ret |-> r.ret]
    /\ UNCHANGED tripSales
    /\ TripFrame

NextTrip ==
    \/ SaleCreate
    \/ SaleUpdate
    \/ SaleDelete
    \/ TripUpdate
    \/ Sync

SpecTrip == InitTrip /\ [][NextTrip]_vars

(***************************************************************************)
(* The date helper on its own: a date and a control are given, _fill_date   *)
(* fills the control.                                                       *)
(***************************************************************************)
InitDate ==
    /\ ClientInit /\ calls = <<>> /\ caller = "none" /\ CliOff
    /\ SvcOff /\ TripOff /\ WaitOff
    /\ dateArg \in Dates
    /\ control \in Controls
    /\ filled = NotFilled

FillDate ==
    /\ dateArg # NoDate /\ filled = NotFilled
    /\ filled' = _fill_date(control, dateArg)
    /\ UNCHANGED <<portalVars, svcVars, tripVars, waitVars, dateArg, control>>

NextDate == FillDate

SpecDate == InitDate /\ [][NextDate]_vars

(***************************************************************************)
(* The waits of the operations.  Each browser interaction that waits is a   *)
(* wait with its timeout in milliseconds, where control goes when what it   *)
(* waits for arrives, and where it goes when the timeout expires: forward   *)
(* by a number of waits, out of the function (return) or out of the         *)
(* operation (raise).  An interaction without a timeout argument has the    *)
(* page's default timeout.  Branches that make no wait (already logged in,  *)
(* already on the hub, an exact match in the list) only skip waits.         *)
(***************************************************************************)
default_timeout_ms == 30000

Fwd(k) == [end |-> "none", rel |-> k]
Return == [end |-> "return", rel |-> 0]
Raise == [end |-> "raise", rel |-> 0]
Wait(ms, arrive, expire) == [ms |-> ms, sleep |-> FALSE, arrive |-> arrive,
                             expire |-> expire]
\* An interaction that raises when its timeout expires.
Act(ms) == Wait(ms, Fwd(1), Raise)
\* page.wait_for_timeout(ms)
Sleep(ms) == [ms |-> ms, sleep |-> TRUE, arrive |-> Fwd(1), expire |-> Fwd(1)]

\* A function's waits as part of its caller's: its return goes to the wait after it.
Inline(prog) ==
    LET fix(t, i) == IF t.end = "return" THEN Fwd(Len(prog) + 1 - i) ELSE t
    IN  [i \in 1..Len(prog) |->
            [prog[i] EXCEPT !.arrive = fix(@, i), !.expire = fix(@, i)]]

\* _start: page.goto(base_url) after set_default_timeout.
StartWaits == <<Act(default_timeout_ms)>>

\* _fill_readonly_input: wait_for, scroll, click, the wait for readonly to go (a
\* timeout is caught and the attribute removed), fill.
FillReadonlyWaits ==
    <<Act(15000), Act(default_timeout_ms), Act(15000),
      Wait(10000, Fwd(1), Fwd(1)), Act(default_timeout_ms)>>

\* login, not yet authenticated: open the modal, fill both inputs, submit, wait for
\* the commissions dropdown.
LoginWaits ==
    StartWaits \o <<Act(15000), Act(15000)>>
    \o Inline(FillReadonlyWaits) \o Inline(FillReadonlyWaits)
    \o <<Act(15000), Act(20000)>>

\* _go_to_commissions_hub and _open_existing_form.
HubWaits == <<Act(15000), Act(15000), Act(15000), Act(20000)>>
OpenFormWaits == <<Act(20000), Act(default_timeout_ms), Act(15000)>>

\* _new_traveler: the button, four fills, the save.
TravelerWaits ==
    <<Act(15000), Act(default_timeout_ms), Act(default_timeout_ms),
      Act(default_timeout_ms), Act(default_timeout_ms), Act(15000)>>

\* _final_submit_commission_form when the hub table shows: the button, the click,
\* networkidle, the row of the form.
FinalSubmitWaits == <<Act(15000), Act(15000), Act(20000), Act(15000)>>

\* open_and_type: wait_for, scroll, click, fill, type.
OpenAndTypeWaits ==
    <<Act(15000), Act(default_timeout_ms), Act(default_timeout_ms),
      Act(default_timeout_ms), Act(default_timeout_ms)>>

\* _add_supplier.  Try 1: a timeout of wait_menu or of click_best_match (wait for the
\* first item, scroll, click) goes to the two key presses; the check of #SupplierId
\* returns, or on timeout goes on to the retry.  Retry: every timeout raises.
AddSupplierWaits ==
    OpenAndTypeWaits
    \o <<Wait(10000, Fwd(1), Fwd(4)), Wait(10000, Fwd(1), Fwd(3)),
         Wait(default_timeout_ms, Fwd(1), Fwd(2)),
         Wait(default_timeout_ms, Fwd(3), Fwd(1)),
         Act(default_timeout_ms), Act(default_timeout_ms),
         Wait(12000, Return, Fwd(1))>>
    \o OpenAndTypeWaits
    \o <<Act(10000), Act(10000), Act(default_timeout_ms), Act(default_timeout_ms),
         Wait(15000, Return, Raise)>>

\* _set_currency_usd on a <select>: the control, select_option (a failure is caught
\* and the option is set by script), the settle wait.
CurrencyWaits ==
    <<Act(15000), Wait(default_timeout_ms, Fwd(1), Fwd(1)), Sleep(250)>>

\* _save_component_and_verify: the button, scroll, click (a failure is caught and the
\* click made by script), the settle wait, then the three signals in order: each
\* returns when it arrives and gives way to the next when it expires; the last one
\* raises.
\* (MutSaveVerifierWaits: the first signal is waited for again when it expires.)
MutSaveVerifierWaits ==
    <<Act(20000), Act(default_timeout_ms), Wait(15000, Fwd(1), Fwd(1)), Sleep(500),
      Wait(7000, Return, Fwd(0)), Wait(7000, Return, Fwd(1)), Sleep(1200),
      Wait(7000, Return, Raise)>>
SaveVerifierWaits ==
    <<Act(20000), Act(default_timeout_ms), Wait(15000, Fwd(1), Fwd(1)), Sleep(500),
      Wait(7000, Return, Fwd(1)), Wait(7000, Return, Fwd(1)), Sleep(1200),
      Wait(7000, Return, Raise)>>

\* _new_component for an Activity: the type menu, the type, the common fields
\* (booking date, supplier, start and end date, currency, two amounts, reference),
\* the itinerary (cleared, filled), the Save-Verifier.
ComponentWaits ==
    <<Act(15000), Act(15000), Act(default_timeout_ms)>>
    \o Inline(AddSupplierWaits)
    \o <<Act(default_timeout_ms), Act(default_timeout_ms)>>
    \o Inline(CurrencyWaits)
    \o <<Act(default_timeout_ms), Act(default_timeout_ms), Act(default_timeout_ms),
         Act(default_timeout_ms), Act(default_timeout_ms)>>
    \o Inline(SaveVerifierWaits)

RECURSIVE Times(_, _)
Times(prog, k) == IF k = 0 THEN <<>> ELSE prog \o Times(prog, k - 1)

\* submit_sale with a traveler and n components.
SubmitSaleWaits(n) ==
    StartWaits \o HubWaits \o OpenFormWaits \o TravelerWaits
    \o Times(Inline(ComponentWaits), n)

\* final_submit_existing_form.
FinalSubmitExistingFormWaits ==
    StartWaits \o HubWaits \o OpenFormWaits \o FinalSubmitWaits

WaitOps ==
    {[op |-> o, n |-> 0] : o \in {"login", "final_submit_existing_form",
                                   "_save_component_and_verify", "_add_supplier"}}
    \cup {[op |-> "submit_sale", n |-> k] : k \in 0..MaxComponents}

\* The waits of each operation; its return ends the call.
Programs ==
    [w \in WaitOps |->
        Inline(CASE w.op = "login" -> LoginWaits
                 [] w.op = "final_submit_existing_form" -> FinalSubmitExistingFormWaits
                 [] w.op = "_save_component_and_verify" -> SaveVerifierWaits
                 [] w.op = "_add_supplier" -> AddSupplierWaits
                 [] OTHER -> SubmitSaleWaits(w.n))]
Program(w) == Programs[w]

InitWaits ==
    /\ ClientInit /\ calls = <<>> /\ caller = "none" /\ CliOff
    /\ DateOff /\ SvcOff /\ TripOff
    /\ wOp \in WaitOps
    /\ wPc = 1
    /\ wLeft = Program(wOp)[1].ms
    /\ wEnd = "running"

WaitFrame == UNCHANGED <<portalVars, dateVars, svcVars, tripVars, wOp>>

\* Control leaves the current wait for a target.
Leave(target) ==
    \E prog \in {Program(wOp)} :
        IF target.end = "raise"
        THEN wPc' = wPc /\ wLeft' = 0 /\ wEnd' = "raised"
        ELSE IF wPc + target.rel > Len(prog)
        THEN wPc' = wPc /\ wLeft' = 0 /\ wEnd' = "returned"
        ELSE /\ wPc' = wPc + target.rel
             /\ wLeft' = prog[wPc + target.rel].ms
             /\ wEnd' = "running"

\* What the interaction waits for arrives before the timeout.
WaitArrive ==
    /\ wEnd = "running"
    /\ ~Program(wOp)[wPc].sleep
    /\ Leave(Program(wOp)[wPc].arrive)
    /\ WaitFrame

\* The clock advances while the wait is pending.
WaitTick ==
    /\ wEnd = "running" /\ wLeft > 0
    /\ wLeft' = IF wLeft > TickMs THEN wLeft - TickMs ELSE 0
    /\ UNCHANGED <<wPc, wEnd>>
    /\ WaitFrame

\* The timeout expires.
WaitExpire ==
    /\ wEnd = "running" /\ wLeft = 0
    /\ Leave(Program(wOp)[wPc].expire)
    /\ WaitFrame

NextWaits ==
    \/ WaitArrive
    \/ WaitTick
    \/ WaitExpire

\* Time passes: a pending wait either ends or its clock advances.
SpecWaits == InitWaits /\ [][NextWaits]_vars /\ WF_vars(NextWaits)

(***************************************************************************)
(* Properties.                                                              *)
(***************************************************************************)
FinalSubmitOp == "final_submit_existing_form"
PortalOps == {"login", "submit_sale", FinalSubmitOp}
LoginErrors == {"StartError", "LaunchError", "ReleaseError", "LifecycleError",
                "LoginTimeout"}

\* C1: no execution of submit_sale, whatever the payload and whether it succeeds or
\* fails, clicks the final submit control (#btnSubmit) or runs a step of a final
\* submit helper.
C1_SubmitSaleNeverFinalSubmits ==
    /\ "submit_sale" \notin clickOps
    /\ result.op = "submit_sale" =>
          /\ FinalClickIn(trace) = 0
          /\ FinalClickIn(steps) = 0
          /\ ("wait:" \o final_submit) \notin (Range(trace) \cup Range(steps))
          /\ lastSave.clicked # final_submit

\* A submit_sale that added the traveler and saved a component by a click on the save
\* control, and returned.
C1_Witness ==
    /\ result.op = "submit_sale" /\ result.status = "ok"
    /\ "traveler" \in Range(trace)
    /\ lastSave.ran /\ lastSave.clicked = component_save
    /\ ("click:" \o component_save) \in Range(steps)

\* C2: portal-final-submit without the acknowledgment flag ends with the refusal
\* error, with no call of final_submit_existing_form and with exactly one close().
C2_RefusalWithoutAck ==
    cliPc = "done" /\ cliCmd = "portal-final-submit" /\ ~cliAck
        => /\ MainRaised = "Refusal"
           /\ Called(FinalSubmitOp) = {}
           /\ Cardinality(Called("close")) = 1

\* C3: when the refusal is raised, no portal operation that drives the browser has
\* been called and no browser session was started.
C3_RefusalBeforeBrowser ==
    cliErr = "Refusal" /\ cliPc = "close"
        => /\ \A i \in DOMAIN calls : calls[i].op \notin PortalOps
           /\ ~pw /\ ~page /\ ~navigated

\* C4 as stated: portal-final-submit with the flag and form id F ends with exactly
\* one call of final_submit_existing_form, with argument F, none of submit_sale, and
\* F as the confirmation id reported.
C4_AckExactlyOneFinalSubmit ==
    cliPc = "done" /\ cliCmd = "portal-final-submit" /\ cliAck
        => /\ Cardinality(Called(FinalSubmitOp)) = 1
           /\ \A i \in Called(FinalSubmitOp) : calls[i].arg = cliFormId
           /\ Called("submit_sale") = {}
           /\ cliOut = cliFormId

\* C4 amended: with the flag and form id F, submit_sale is never called and
\* final_submit_existing_form is called at most once and only with argument F; when
\* main ends it was called exactly once unless login raised; a confirmation id is
\* reported exactly when that call returned, and it is F.
C4_AckFinalSubmitOnceAfterLogin ==
    cliCmd = "portal-final-submit" /\ cliAck
        => /\ Called("submit_sale") = {}
           /\ Cardinality(Called(FinalSubmitOp)) <= 1
           /\ \A i \in Called(FinalSubmitOp) : calls[i].arg = cliFormId
           /\ cliOut \in {NoValue, cliFormId}
           /\ cliPc = "done" =>
                 /\ (Called(FinalSubmitOp) = {}) <=> (cliErr \in LoginErrors)
                 /\ (cliOut = cliFormId) <=> (cliErr = "none")

\* main ended after a final submit, on the form that is not the default one, that
\* returned.
C4_Witness ==
    /\ cliPc = "done" /\ cliCmd = "portal-final-submit" /\ cliAck
    /\ cliFormId # DefaultFormId
    /\ cliErr = "none" /\ cliOut = cliFormId
    /\ Cardinality(Called(FinalSubmitOp)) = 1

\* C5: for every subcommand and every outcome, once main has ended close() was called
\* exactly once and it is the last operation called on the client; before main ends
\* close() was not called yet and main can go on.
C5_CloseOnceAndLast ==
    /\ cliPc = "done" =>
          /\ Cardinality(Called("close")) = 1
          /\ calls[Len(calls)].op = "close"
    /\ cliPc \in {"login", "dispatch", "svc_login", "svc_submit", "in_submit", "close"} =>
          /\ Called("close") = {}
          /\ ENABLED NextCli

\* main ended with the error of a submit_sale that the service called after its own
\* login.
C5_Witness ==
    /\ cliPc = "done" /\ cliCmd = "submit-sale"
    /\ cliErr = "SubmitSaleTimeout"
    /\ Len(calls) = 4 /\ calls[4].op = "close"

\* C6: when a validation error is visible after the save control was activated, the
\* Save-Verifier rejects the save and evaluates none of the three success signals.
C6_ValidationFailsFast ==
    lastSave.ran /\ lastSave.validation
        => /\ lastSave.outcome = "rejected"
           /\ lastSave.evaluated = <<>>
           /\ result.status = "error"

\* C7: with no validation error visible, the signals evaluated are a prefix of
\* navigation, control, content that ends at the first signal observed (or is all
\* three); the save is accepted exactly when that last signal was observed, and the
\* waits were made in this order right after the validation check.
C7_SignalsInOrder ==
    lastSave.ran /\ ~lastSave.validation =>
        LET ev == lastSave.evaluated
            n == Len(ev)
            m == Len(steps)
        IN  /\ n \in 1..3
            /\ ev = Prefix(Signals, n)
            /\ \A i \in 1..(n - 1) : ~Observed(lastSave, ev[i])
            /\ n < 3 => Observed(lastSave, ev[n])
            /\ (lastSave.outcome = "accepted") <=> Observed(lastSave, ev[n])
            /\ m > n
            /\ steps[m - n] = "check:validation"
            /\ \A i \in 1..n : steps[m - n + i] = "wait:" \o Signals[i]

\* A save with no navigation change that the disabled control accepted.
C7_Witness ==
    /\ lastSave.ran /\ ~lastSave.validation
    /\ ~lastSave.nav /\ lastSave.ctrl /\ lastSave.content
    /\ lastSave.evaluated = <<"nav", "ctrl">>
    /\ lastSave.outcome = "accepted"

\* C8: a save is accepted only if one of the three signals was observed; when none
\* was, submit_sale ends with the verification error and a screenshot tagged with the
\* booking reference was asked for before.
C8_SuccessOnlyIfSignal ==
    lastSave.ran =>
        LET any == lastSave.nav \/ lastSave.ctrl \/ lastSave.content
        IN  /\ lastSave.outcome \in {"accepted", "rejected"}
            /\ lastSave.outcome = "accepted" => any
            /\ ~any =>
                  /\ lastSave.outcome = "rejected"
                  /\ result = Raised("submit_sale", "SaveUnverified")
                  /\ ~cur.active
                  /\ dumps # <<>>
                  /\ dumps[Len(dumps)] = "save_unverified_" \o lastSave.ref
                  /\ written \in {<<>>, dumps}
            /\ lastSave.outcome = "accepted" =>
                  result.err # "SaveUnverified" /\ result.status # "error"

\* A save after which no signal arrived, with the screenshot written.
C8_Witness ==
    /\ lastSave.ran
    /\ ~lastSave.nav /\ ~lastSave.ctrl /\ ~lastSave.content
    /\ lastSave.ref = "BR-2"
    /\ "save_unverified_BR-2" \in Range(written)

\* The caller invokes a portal interaction in this step.
Invoked == /\ Len(calls') = Len(calls) + 1
           /\ calls'[Len(calls')].op \in PortalOps

C10_CloseIdempotent ==
    lastClose.called =>
        /\ result = Ok("close", NoValue)
        /\ ~pw /\ ~browser /\ ~context /\ ~page
        /\ \A i, j \in DOMAIN lastClose.released :
               lastClose.released[i] = lastClose.released[j] => i = j
        /\ ("pw" \in Range(lastClose.released)) => lastClose.before[1]
        /\ ("browser" \in Range(lastClose.released)) => lastClose.before[2]
        /\ ("context" \in Range(lastClose.released)) => lastClose.before[3]

\* The caller invokes login in this step.
LoginInvoked == /\ Len(calls') = Len(calls) + 1
                /\ calls'[Len(calls')].op = "login"

\* C11 as stated: a login on a session that shows the landmark makes no authentication
\* interaction and returns; and of two logins in sequence at most one makes the
\* authentication interaction.
C11_LoginIdempotent ==
    [][LoginInvoked =>
          /\ (page /\ authed) => ~AuthAttempted /\ result' = Ok("login", NoValue)
          /\ (calls # <<>> /\ calls[Len(calls)].op = "login" /\ calls[Len(calls)].auth)
                => ~AuthAttempted]_vars

\* C11 amended: a login on a session that shows the landmark makes no authentication
\* interaction (its only steps are the session check and the look for the landmark)
\* and returns; a login that returns leaves the landmark shown; so of two logins in
\* sequence the second makes no authentication interaction when the first one left
\* the landmark shown, in particular when it returned.
C11_LoginSkipsWhenAuthenticated ==
    [][LoginInvoked =>
          /\ (page /\ authed) =>
                /\ ~AuthAttempted
                /\ trace' = <<"start", "check:commissions_dropdown">>
                /\ result' = Ok("login", NoValue)
          /\ result'.status = "ok" => page' /\ authed'
          /\ (calls # <<>> /\ calls[Len(calls)].op = "login" /\ calls[Len(calls)].authed)
                => ~AuthAttempted /\ result' = Ok("login", NoValue)]_vars

\* Two logins in sequence: the first authenticated, the second found the landmark and
\* did nothing more.
C11_Witness ==
    /\ Len(calls) = 2
    /\ calls[1].op = "login" /\ calls[1].auth /\ calls[1].authed
    /\ calls[2].op = "login" /\ ~calls[2].auth
    /\ result = Ok("login", NoValue)
    /\ trace = <<"start", "check:commissions_dropdown">>

\* The error an operation raises for a timeout it caught, and the tag of the
\* screenshot it asks for then.
OpTimeoutError(op) ==
    CASE op = "login" -> "LoginTimeout"
      [] op = "submit_sale" -> "SubmitSaleTimeout"
      [] OTHER -> "FinalSubmitTimeout"
OpTimeoutTags(op) ==
    CASE op = "login" -> {"login_timeout"}
      [] op = "submit_sale" -> {"submit_sale_timeout"}
      [] OTHER -> {"final_submit_timeout_" \o f : f \in FormIds}

\* The operation ended because the initial navigation of the session start failed
\* (the page exists and did not reach the portal).
NavigationFailed == result.err = "StartError" /\ page /\ ~navigated

\* C12: an operation that ended because a step timed out, the initial navigation
\* included, ended with its operation-specific error, and a screenshot tagged with
\* the operation was asked for.
C12_TimeoutGivesOperationError ==
    (result.op \in PortalOps /\ result.status = "error"
        /\ (NavigationFailed \/ result.err = OpTimeoutError(result.op)))
    => /\ result.err = OpTimeoutError(result.op)
       /\ \E i \in DOMAIN dumps : dumps[i] \in OpTimeoutTags(result.op)

\* The steps that open a record.
OpenSteps == {"open:" \o f : f \in FormIds}

\* C13: a submit_sale that returns reports R with the suffix -NO-SUBMIT, where R is
\* the payload's existing_form_id when it carries one and the default form id
\* otherwise; whether it returns or fails, the only record it opens is R, and its
\* steps are the hub, the opening of R, the traveler and the components: none creates
\* a record.
C13_ConfirmationIsOpenedRecord ==
    (result.op = "submit_sale" /\ calls # <<>>) =>
        LET given == calls[Len(calls)].arg
            R == IF given # NoValue THEN given ELSE DefaultFormId
        IN  /\ calls[Len(calls)].op = "submit_sale"
            /\ \A i \in DOMAIN trace : trace[i] \in OpenSteps => trace[i] = "open:" \o R
            /\ cur.active => cur.formId = R
            /\ Range(trace) \subseteq {"start", "hub", "open:" \o R, "traveler",
                                       "component", "return"}
            /\ result.status = "ok" =>
                  /\ result.conf = R \o "-NO-SUBMIT"
                  /\ ("open:" \o R) \in Range(trace)

\* A submit_sale on a record that is not the default one returned after it saved a
\* component.
C13_Witness ==
    /\ result.op = "submit_sale" /\ result.status = "ok"
    /\ calls[Len(calls)].arg = "EVO2026000001"
    /\ result.conf = "EVO2026000001-NO-SUBMIT"
    /\ lastSave.ran

\* The position of the first occurrence of a step in a sequence of steps (0: none).
IndexIn(seq, step) ==
    IF step \in Range(seq) THEN CHOOSE i \in DOMAIN seq :
                                    seq[i] = step /\ \A j \in 1..(i - 1) : seq[j] # step
    ELSE 0

\* C14: final_submit_existing_form(F) either returns or raises; it returns, with F as
\* the confirmation id, only after the final submit control was clicked and then the
\* success banner or the row of F in the hub table was seen; when a step timed out or
\* no signal was seen it raises and gives no result.
C14_FinalSubmitVerified ==
    (result.op = FinalSubmitOp /\ calls # <<>>) =>
        LET F == calls[Len(calls)].arg
            click == IndexIn(trace, "click:" \o final_submit)
            seen == {i \in DOMAIN trace : trace[i] \in {"seen:banner", "seen:row:" \o F}}
        IN  /\ calls[Len(calls)].op = FinalSubmitOp
            /\ result.status \in {"ok", "error"}
            /\ result.status = "ok" =>
                  /\ result.conf = F
                  /\ click > 0
                  /\ \E i \in seen : i > click
                  /\ ("final_submit_ok_" \o F) \in Range(dumps)
            /\ result.status = "error" => result.conf = NoValue
            /\ seen = {} => result.status = "error"
            /\ (click = 0 \/ "wait:networkidle" \notin Range(trace))
                  => result.status = "error"

\* A final submit of the record that is not the default one, verified by its row in
\* the hub table.
C14_Witness ==
    /\ result = Ok(FinalSubmitOp, "EVO2026000001")
    /\ "seen:row:EVO2026000001" \in Range(trace)
    /\ finalClicks = 1

\* The steps of a submit_sale before its components, and its steps when n components
\* were started and (ret) it returned.
SubmitPlan(e) ==
    <<"hub", "open:" \o (IF e.arg # NoValue THEN e.arg ELSE DefaultFormId)>>
    \o (IF e.traveler THEN <<"traveler">> ELSE <<>>)
SubmitTrace(e, n, ret) ==
    <<"start">> \o SubmitPlan(e) \o [i \in 1..n |-> "component"]
    \o (IF ret THEN <<"return">> ELSE <<>>)

\* What C15 says of one state of a submit_sale whose call log entry is e.
SubmitInOrder(e) ==
    LET n == Cardinality({i \in DOMAIN trace : trace[i] = "component"})
    IN  /\ n <= e.components
        /\ CASE result.status = "ok" ->
                   /\ trace = SubmitTrace(e, e.components, TRUE)
                   /\ ~cur.active
             [] result.status = "running" ->
                   /\ trace = SubmitTrace(e, n, FALSE)
                   /\ cur.active /\ cur.done = n /\ cur.todo = e.components - n
                   /\ n > 0 /\ steps # <<>> =>
                         lastSave.ran /\ lastSave.outcome = "accepted"
             [] OTHER ->
                   /\ result.status = "error" /\ result.conf = NoValue
                   /\ ~cur.active
                   /\ \/ n > 0 /\ trace = SubmitTrace(e, n, FALSE)
                      \/ /\ n = 0
                         /\ \E k \in 0..Len(SubmitPlan(e)) :
                               trace = <<"start">> \o Prefix(SubmitPlan(e), k)

SubmitOrderOk ==
    (result.op = "submit_sale" /\ calls # <<>>) =>
        /\ calls[Len(calls)].op = "submit_sale"
        /\ SubmitInOrder(calls[Len(calls)])

RECURSIVE ValueOf(_)
ValueOf(s) ==
    IF s = <<>> THEN -1
    ELSE LET last == s[Len(s)]
             k == IF \E i \in DOMAIN DigitChars : DigitChars[i] = last
                  THEN (CHOOSE i \in DOMAIN DigitChars : DigitChars[i] = last) - 1
                  ELSE -1
             front == IF Len(s) = 1 THEN 0 ELSE ValueOf(SubSeq(s, 1, Len(s) - 1))
         IN  IF k < 0 \/ front < 0 THEN -1 ELSE 10 * front + k

\* The fields of a text between the occurrences of the separator.
RECURSIVE SplitAt(_, _)
SplitAt(s, sep) ==
    IF \A i \in DOMAIN s : s[i] # sep THEN <<s>>
    ELSE LET i == CHOOSE j \in DOMAIN s : s[j] = sep /\ \A k \in 1..(j - 1) : s[k] # sep
         IN  <<SubSeq(s, 1, i - 1)>> \o SplitAt(SubSeq(s, i + 1, Len(s)), sep)

\* The date a text denotes when read in a format (year-month-day with "-", or
\* day/month/year, or month/day/year); NoDate when it denotes none.
ParseDate(s, fmt) ==
    LET f == SplitAt(s, IF fmt = "ISO" THEN "-" ELSE "/")
        n == [i \in DOMAIN f |-> ValueOf(f[i])]
        dt == IF Len(f) # 3 THEN NoDate
              ELSE IF fmt = "ISO" THEN [year |-> n[1], month |-> n[2], day |-> n[3]]
              ELSE IF fmt = "DMY" THEN [year |-> n[3], month |-> n[2], day |-> n[1]]
              ELSE [year |-> n[3], month |-> n[1], day |-> n[2]]
    IN  IF /\ dt.year \in 1..9999 /\ dt.month \in 1..12
           /\ dt.day >= 1 /\ dt.day <= DaysIn(dt.year, dt.month)
        THEN dt ELSE NoDate

\* A text of ten characters: three zero-padded numbers of the widths w1, w2 and
\* 10 - 2 - w1 - w2 around two separators.
Padded(s, w1, w2, sep, n1, n2, n3) ==
    /\ Len(s) = 10
    /\ s[w1 + 1] = sep /\ s[w1 + w2 + 2] = sep
    /\ ValueOf(SubSeq(s, 1, w1)) = n1
    /\ ValueOf(SubSeq(s, w1 + 2, w1 + w2 + 1)) = n2
    /\ ValueOf(SubSeq(s, w1 + w2 + 3, 10)) = n3

\* Whether an attribute of the control carries the hint, in any letter case.
Hints(c, hint) ==
    \/ Contains(toUpperCase(c.placeholder), hint)
    \/ Contains(toUpperCase(c.aria), hint)
NativeDate(c) == toLowerCase(c.type) = <<"d", "a", "t", "e">>

\* C16: _fill_date fills a native date control with the zero-padded YYYY-MM-DD, a
\* control that is not native and hints DD/MM with the zero-padded DD/MM/YYYY, a
\* control with no hint with MM/DD/YYYY; and the text filled, read back in the format
\* chosen, is the date given.
C16_FillDateRendering ==
    filled # NotFilled =>
        LET dt == dateArg
            dm == Hints(control, <<"D", "D", "/", "M", "M">>)
            md == Hints(control, <<"M", "M", "/", "D", "D">>)
        IN  /\ NativeDate(control) =>
                   Padded(filled, 4, 2, "-", dt.year, dt.month, dt.day)
            /\ (~NativeDate(control) /\ dm) =>
                   Padded(filled, 2, 2, "/", dt.day, dt.month, dt.year)
            /\ (~NativeDate(control) /\ ~dm /\ ~md) =>
                   Padded(filled, 2, 2, "/", dt.month, dt.day, dt.year)
            /\ ParseDate(filled, ChosenFormat(control)) = dt

\* 5 March 2024 filled into a text control whose placeholder is dd/mm/yyyy.
C16_Witness ==
    /\ dateArg = [year |-> 2024, month |-> 3, day |-> 5]
    /\ control.type = <<"t", "e", "x", "t">>
    /\ control.placeholder = <<"d", "d", "/", "m", "m", "/", "y", "y", "y", "y">>
    /\ control.aria = <<>>
    /\ filled = <<"0", "5", "/", "0", "3", "/", "2", "0", "2", "4">>

\* The tags of the screenshots a failure handler asks for.
FailureTags ==
    {"login_timeout", "submit_sale_timeout", "currency_set_exception", "currency_not_set"}
    \cup {"final_submit_timeout_" \o f : f \in FormIds}
    \cup {"final_submit_error_" \o f : f \in FormIds}
    \cup {"save_unverified_" \o b : b \in Refs}

\* C17: when a step calls _debug_dump and the screenshot is not written, the step ends
\* as it ends when the screenshot is written: with the same error of the operation
\* after a failure handler's capture, and never with an error of the capture.
C17_CaptureNeverMasks ==
    (dumps # <<>> /\ written # dumps) =>
        /\ result = ifCaptured
        /\ result.err # "ScreenshotError"
        /\ (dumps[Len(dumps)] \in FailureTags) => result.status = "error"

\* A login that timed out, whose handler's screenshot could not be written.
C17_Witness ==
    /\ dumps = <<"login_timeout">>
    /\ written = <<>>
    /\ page
    /\ result = Raised("login", "LoginTimeout")

\* C18: no public operation of the client (login, submit_sale,
\* final_submit_existing_form, close) clicks the final submit control (#btnSubmit).
C18_NoPublicOpClicksFinalSubmit ==
    /\ finalClicks = 0
    /\ clickOps = {}
    /\ ("click:" \o final_submit) \notin Range(trace)

\* The rows of the commissions table, as the session sees them, of the sale the
\* service was called for.
RowsOfSale == get_by_sale_id(sessRows, svcSale)

\* C19: when SalesSubmissionService.submit_sale has returned, the service called
\* portal.login and then portal.submit_sale, the sale has exactly one commission
\* row, the row's commission_form_ref is the confirmation id the portal returned,
\* and the outcome carries the sale id and that confirmation id.
C19_ServiceStoresConfirmation ==
    svcPc = "returned" =>
        /\ Len(portalLog) >= 2
        /\ \A j \in DOMAIN portalLog :
              portalLog[j].op = "submit_sale" =>
                  \E i \in 1..(j - 1) : portalLog[i].op = "login"
        /\ portalLog[Len(portalLog)].op = "submit_sale"
        /\ Cardinality(RowsOfSale) = 1
        /\ \A r \in RowsOfSale : r.form_ref = portalLog[Len(portalLog)].conf
        /\ svcOutcome = [sale_id |-> svcSale,
                      confirmation_id |-> portalLog[Len(portalLog)].conf]

\* The service returned for a sale whose commission row existed, with another form
\* ref, before the call.
C19_Witness ==
    /\ svcPc = "returned"
    /\ \E r \in dbRows : r.sale_id = svcSale /\ r.form_ref = "OLD-REF"
    /\ svcOutcome.sale_id = svcSale
    /\ svcOutcome.confirmation_id = "FAKE-CONF-123"
    /\ \E r \in sessRows : r.sale_id = svcSale /\ r.form_ref = "FAKE-CONF-123"

\* C20: a sync_trip_status_from_sales call on a trip whose status is Cancelado, for
\* any sales of the trip and any today, returns Cancelado and leaves the status of
\* the trip Cancelado, after any sequence of sale changes, status changes made by
\* hand and earlier sync calls.
C20_SyncKeepsCancelado ==
    (lastSync.called /\ lastSync.before = CANCELADO) =>
        /\ lastSync.ret = CANCELADO
        /\ tripStatus = CANCELADO

\* A sync on a cancelled trip with a sale in progress today, from which Viajando
\* would be computed.
C20_Witness ==
    /\ lastSync.called /\ lastSync.before = CANCELADO
    /\ lastSync.ret = CANCELADO
    /\ compute_trip_status_from_sales(SalesOfTrip, lastSync.today).computed_status
           = VIAJANDO

\* The sales of the trip that are neither Cancelada nor No aplica, and the start and
\* end dates they carry.
EligibleSales == {x \in SalesOfTrip : x.status # "Cancelada" /\ x.status # "No aplica"}
EligibleStarts == {x.travel_start_date : x \in EligibleSales} \ {NoDay}
EligibleEnds == {x.travel_end_date : x \in EligibleSales} \ {NoDay}

\* The last sync returned the status and the trip has it.
Synced(status) == lastSync.ret = status /\ tripStatus = status

\* A sync repeated now, with the same sales and the same today, returns what the last
\* one returned and leaves the trip's status as it is.
SyncAgainSame ==
    sync_trip_status_from_sales(tripStatus, SalesOfTrip, lastSync.today)
        = [ret |-> lastSync.ret, status |-> tripStatus]

\* C21 as stated: a sync on a trip that is not Cancelado gives Proximo when today is
\* before the earliest eligible start, Viajando from the earliest start up to the
\* latest eligible end (or when there is no end), Finalizado when today is after the
\* latest end, None (status unchanged) when no eligible sale has a start; and a
\* second sync changes nothing.
C21_SyncFromEligibleSales ==
    (lastSync.called /\ lastSync.before # CANCELADO) =>
        LET today == lastSync.today
        IN  /\ EligibleStarts = {} =>
                   lastSync.ret = NoStatus /\ tripStatus = lastSync.before
            /\ EligibleStarts # {} =>
                   /\ today < MinOf(EligibleStarts) => Synced(PROXIMO)
                   /\ (/\ today >= MinOf(EligibleStarts)
                       /\ (EligibleEnds = {} \/ today <= MaxOf(EligibleEnds)))
                          => Synced(VIAJANDO)
                   /\ (EligibleEnds # {} /\ today > MaxOf(EligibleEnds))
                          => Synced(FINALIZADO)
            /\ SyncAgainSame

\* C21 amended: as stated, except that Finalizado is given when today is after the
\* latest end and not before the earliest start; before the earliest start the trip
\* is Proximo whatever the end dates are.
C21_SyncStartBeforeEnd ==
    (lastSync.called /\ lastSync.before # CANCELADO) =>
        LET today == lastSync.today
        IN  /\ EligibleStarts = {} =>
                   lastSync.ret = NoStatus /\ tripStatus = lastSync.before
            /\ EligibleStarts # {} =>
                   /\ today < MinOf(EligibleStarts) => Synced(PROXIMO)
                   /\ (/\ today >= MinOf(EligibleStarts)
                       /\ (EligibleEnds = {} \/ today <= MaxOf(EligibleEnds)))
                          => Synced(VIAJANDO)
                   /\ (/\ today >= MinOf(EligibleStarts)
                       /\ EligibleEnds # {} /\ today > MaxOf(EligibleEnds))
                          => Synced(FINALIZADO)
            /\ SyncAgainSame

\* A sync that set a Proximo trip to Finalizado, with a cancelled sale that is still
\* to come among the sales.
C21_Witness ==
    /\ lastSync.called /\ lastSync.before = PROXIMO
    /\ Synced(FINALIZADO)
    /\ \E x \in SalesOfTrip : x.status = "Cancelada" /\ x.travel_end_date > lastSync.today
    /\ EligibleSales # {}

\* A sequence of interactions with each run of interactions of the Supplier
\* Resolver taken as the one step "supplier", and each run of interactions of the
\* currency step as the one step "currency".
StepOf(e) == IF e \in SupplierEvents THEN "supplier"
             ELSE IF e \in CurrencyEvents THEN "currency" ELSE e
RECURSIVE Collapse(_)
Collapse(s) ==
    IF s = <<>> THEN <<>>
    ELSE LET rest == Collapse(Tail(s))
             h == StepOf(Head(s))
         IN  IF h \in {"supplier", "currency"} /\ rest # <<>> /\ rest[1] = h
             THEN rest ELSE <<h>> \o rest

\* The interactions of a component add before the Save-Verifier was invoked (its
\* first interaction is the Escape key press).
BeforeVerifier(s) ==
    IF "press:Escape" \in Range(s) THEN Prefix(s, IndexIn(s, "press:Escape") - 1) ELSE s

\* The order required of the add of a component of type t with booking reference
\* ref, up to the Save-Verifier.
RequiredOrder(t, ref) ==
    <<"click:component_dropdown", "click:component_" \o t,
      "fill:booking_date", "supplier", "fill:start_date", "fill:end_date", "currency",
      "fill:estimated_commission", "fill:total_sales_amount",
      "fill:supplier_reference=" \o ref>>
    \o TypeSteps(t)

\* C22: the interactions of every component add are, in order, an initial part of:
\* type menu, the component type, booking date, supplier, start date, end date,
\* currency, commission amount, total sale amount, booking reference, the fields of
\* the type; the Save-Verifier is invoked, and the save control activated, only after
\* all of them, and with the booking reference that was filled in.
C22_ComponentStepsInOrder ==
    steps # <<>> =>
        \E done \in {Collapse(BeforeVerifier(steps))} :
        \E saving \in {"press:Escape" \in Range(steps) \/ lastSave.ran
                        \/ \E i \in DOMAIN steps :
                              steps[i] \in {"click:" \o component_save,
                                            "jsclick:" \o js_save_selector}} :
        \E t \in KnownTypes, ref \in Refs :
            \E req \in {RequiredOrder(t, ref)} :
                /\ Len(done) <= Len(req)
                /\ done = Prefix(req, Len(done))
                /\ saving => done = req /\ lastSave.ref = ref

\* A Package component with reference BR-2 that was added and whose save was
\* accepted.
C22_Witness ==
    /\ "click:package_hotel_choice" \in Range(steps)
    /\ "fill:supplier_reference=BR-2" \in Range(steps)
    /\ lastSave.ran /\ lastSave.ref = "BR-2" /\ lastSave.outcome = "accepted"

\* The positions of an interaction among the interactions of the component add.
At(x) == {i \in DOMAIN steps : steps[i] = x}
Typings == At("supplier:type:15") \cup At("supplier:type:40")

\* C23: the Supplier Resolver types the name at most twice, the second time only
\* after a first attempt whose check found the hidden identifier invalid; the add goes
\* on past the resolver only after a check that found it valid; and when the check of
\* the second attempt finds it invalid too, nothing follows and the call raises.
C23_SupplierAtMostTwoAttempts ==
    /\ Cardinality(Typings) <= 2
    /\ Cardinality(At("supplier:type:15")) <= 1
    /\ \A i \in At("supplier:type:40") :
           /\ \E j \in At("supplier:type:15") : j < i
           /\ \E j \in At(CheckId(FALSE)) : j < i
           /\ ~ \E j \in At(CheckId(TRUE)) : j < i
    /\ \A i \in DOMAIN steps :
           (steps[i] \in SupplierEvents /\ i < Len(steps)
            /\ steps[i + 1] \notin SupplierEvents) => steps[i] = CheckId(TRUE)
    /\ Cardinality(At(CheckId(FALSE))) = 2 =>
           /\ steps[Len(steps)] = CheckId(FALSE)
           /\ result.op = "submit_sale" /\ result.status = "error"
           /\ ~lastSave.ran /\ ~cur.active

\* Both attempts were made and both checks found the identifier invalid.
C23_Witness ==
    /\ Cardinality(Typings) = 2
    /\ Cardinality(At(CheckId(FALSE))) = 2
    /\ result.status = "error"

\* An attempt of the Supplier Resolver whose suggestion list rendered (with or without
\* an exact match) or did not, as the interactions show it.
ListSeen(i, m) == steps[i] = "supplier:wait_menu=" \o m

\* C24: in each attempt the exact match is clicked when the list holds one, otherwise
\* the first suggestion, and when the list never renders the resolver confirms by
\* keyboard and goes on to defocus and check the hidden identifier.
C24_EachAttemptFallsBackToKeyboard ==
    \A i \in DOMAIN steps :
        /\ ListSeen(i, "exact") =>
               i + 1 <= Len(steps) /\ steps[i + 1] = "supplier:click_exact"
        /\ ListSeen(i, "other") =>
               i + 1 <= Len(steps) /\ steps[i + 1] = "supplier:click_first"
        /\ ListSeen(i, "none") =>
               /\ i + 3 <= Len(steps)
               /\ steps[i + 1] = "supplier:keyboard"
               /\ steps[i + 2] = "supplier:blur"
               /\ steps[i + 3] \in {CheckId(TRUE), CheckId(FALSE)}

\* The positions at which the save control of a component was activated.
SaveActivations == At("click:" \o component_save) \cup At("jsclick:" \o js_save_selector)

\* C25: the add goes on past a currency step only when the value read after the
\* settle wait was non-empty; an empty value ends the add, with the capture
\* "currency_not_set" called and the call raising the currency error; the save control
\* is activated only after a currency step that read a non-empty value, and for a
\* Package one such step lies between the activity/hotel toggles and the save.
C25_CurrencyCheckedBeforeSave ==
    /\ \A i \in DOMAIN steps :
           (steps[i] \in CurrencyEvents /\ i < Len(steps)
            /\ steps[i + 1] \notin CurrencyEvents) => steps[i] = "currency:value=set"
    /\ \A i \in At("currency:value=empty") :
           /\ i = Len(steps)
           /\ "currency_not_set" \in Range(dumps)
           /\ result = Raised("submit_sale", "CurrencyError")
           /\ ~lastSave.ran
    /\ \A i \in SaveActivations :
           /\ \E j \in At("currency:value=set") : j < i
           /\ \A h \in At("click:package_hotel_choice") :
                  \E j \in At("currency:value=set") : h < j /\ j < i
    /\ lastSave.ran => At("currency:value=set") # {}

\* A Package whose currency was read as set twice, the second time after the hotel
\* toggle, and whose save control was then activated.
C25_Witness ==
    /\ \E h \in At("click:package_hotel_choice"), j \in At("currency:value=set"),
          i \in SaveActivations : h < j /\ j < i
    /\ Cardinality(At("currency:value=set")) = 2

\* C26: every call of login, submit_sale, final_submit_existing_form, the
\* Save-Verifier and the Supplier Resolver eventually ends, by returning or by
\* raising, whatever arrives or never arrives at each of its waits.
C26_EveryCallTerminates == <>(wEnd \in {"returned", "raised"})

\* A submit_sale with the most components whose last component's Save-Verifier saw
\* none of the three signals before its last timeout expired, and raised.
C26_Witness ==
    /\ wOp = [op |-> "submit_sale", n |-> MaxComponents]
    /\ wPc = Len(Program(wOp))
    /\ wEnd = "raised"

\* C27: after every public operation the playwright, browser, context and page
\* handles are all set, on a page that navigated to base_url, or all unset; and no
\* second playwright instance is started while an earlier one is held.
C27_SessionHandlesAllOrNone ==
    /\ \/ pw /\ browser /\ context /\ page /\ navigated
       \/ ~pw /\ ~browser /\ ~context /\ ~page /\ ~navigated
    /\ livePw <= 1

\* C28: in a call of the service in which portal.login or portal.submit_sale raised,
\* the error stays the outcome of the call, no outcome is returned, set_form_ref is
\* not called (the rows of the sale in the session are the committed ones or a new
\* row without form ref), and the committed table does not change: after the
\* rollback the session sees the table as it was committed before the call.
C28_PortalFailureCommitsNothing ==
    [][svcErr' = "PortalError" =>
          /\ dbRows' = dbRows
          /\ svcOutcome' = NoOutcome
          /\ svcPc' \in {"failed", "idle"}
          /\ svcPc = "failed" => svcErr = "PortalError" /\ svcPc' = "idle"
          /\ \A r \in get_by_sale_id(sessRows', svcSale') :
                 r \in dbRows \/ r.form_ref = NoRef
          /\ svcPc' = "idle" => sessRows' = dbRows]_vars

\* A call that created the commission row of its sale, whose portal.submit_sale
\* raised, and that was rolled back: the sale has no committed commission row.
C28_Witness ==
    /\ svcPc = "idle" /\ svcErr = "PortalError"
    /\ Len(portalLog) = 2 /\ portalLog[2].op = "submit_sale"
    /\ nextId > 2
    /\ get_by_sale_id(dbRows, svcSale) = {}

\* C29: a component of a type that is not known ends submit_sale with the
\* unknown-component-type error after the type menu was opened and nothing else: no
\* field filled, no save attempted, the loop left (no later component), no result
\* returned; the step only adds to what was done before it.
C29_UnknownTypeStopsSubmitSale ==
    [][(cur.active /\ result'.err = "UnknownComponentType") =>
          /\ steps' = <<"click:component_dropdown">>
          /\ lastSave' = NoSave
          /\ ~cur'.active
          /\ result' = Raised("submit_sale", "UnknownComponentType")
          /\ trace' = Append(trace, "component")
          /\ finalClicks' = finalClicks]_vars

\* The second component of a payload was of an unknown type: the first one had been
\* added, and submit_sale raised.
C29_Witness ==
    /\ result = Raised("submit_sale", "UnknownComponentType")
    /\ steps = <<"click:component_dropdown">>
    /\ Len(trace) >= 2
    /\ trace[Len(trace)] = "component" /\ trace[Len(trace) - 1] = "component"
    /\ ~cur.active

\* C30: under the submit-sale command every submit_sale the service makes reads an
\* empty payload: it opens the default form and adds no traveler and no component,
\* and the confirmation id the service stores, when it stores one, is the default form
\* id followed by "-NO-SUBMIT", whatever the sale holds.
C30_DbFlowOpensDefaultForm ==
    cliCmd = "submit-sale" =>
        /\ \A i \in Called("submit_sale") :
               /\ calls[i].arg = NoValue
               /\ ~calls[i].traveler
               /\ calls[i].components = 0
        /\ cur.active => cur.formId = DefaultFormId /\ cur.todo = 0 /\ cur.done = 0
        /\ "traveler" \notin Range(trace) /\ "component" \notin Range(trace)
        /\ \A i \in DOMAIN trace :
               (\E f \in FormIds : trace[i] = "open:" \o f) =>
                   trace[i] = "open:" \o DefaultFormId
        /\ result.op = "submit_sale" /\ result.status = "ok" =>
               result.conf = DefaultFormId \o NoSubmitSuffix
        /\ cliOut \in {NoValue, DefaultFormId \o NoSubmitSuffix}

\* The submit-sale command ran to the end and stored the confirmation id.
C30_Witness ==
    /\ cliCmd = "submit-sale" /\ cliPc = "done" /\ cliErr = "none"
    /\ Called("submit_sale") # {}
    /\ cliOut = DefaultFormId \o NoSubmitSuffix

====
